---- MODULE Spec2Model ----
(***************************************************************************)
(* A model of the tuple update engine of box/update/update_field.c and of  *)
(* its caller box_tuple_update() of box/tuple.c.                           *)
(*                                                                         *)
(* MessagePack data is modelled by records that keep, besides the decoded  *)
(* value, the width of the encoding that was used, so that two modelled    *)
(* values are equal exactly when their byte strings are equal.             *)
(***************************************************************************)
EXTENDS Integers, Sequences, FiniteSets, TLC

(***************************************************************************)
(* Bounds of the model.  Machine words are modelled narrower than in the   *)
(* build so that their limits stay inside the integers of the checker; the *)
(* order of the widths is the order in the build                           *)
(* (float mantissa < double mantissa < int32 < int64 < int96).             *)
(***************************************************************************)
\* width of uint64_t / int64_t
WordBits == 20
\* width of int32_t / uint32_t
I32Bits == 18
\* bits of struct int96_num above the 64-bit word
AccExtraBits == 4
\* mantissa of a double
DblMantBits == 16
\* mantissa of a float
FltMantBits == 8
\* longest operation list of one update call
MaxOps == 2
\* width of the reference counter of a tuple and of a bigref index
RefBits == 2
\* values a big reference counter takes above TUPLE_REF_MAX before it
\* overflows
CountSpan == 2
\* first capacity of the bigref list
BIGREF_MIN_CAPACITY == 1

UINT64_MAX == 2^WordBits - 1
INT64_MIN == -(2^(WordBits - 1))
INT32_MAX == 2^(I32Bits - 1) - 1
INT32_MIN == -(2^(I32Bits - 1))
UINT32_MAX == 2^I32Bits - 1

(***************************************************************************)
(* MessagePack values.  t is the mp_typeof() of the first byte, v the      *)
(* number held by a scalar, w the size in bytes of a scalar or of the      *)
(* header of a string, array or map, s the bytes of a string, a the        *)
(* elements of an array (of a map: key, value, key, value, ...).           *)
(***************************************************************************)
\* F applied to the value v: the value is computed once and named in F
Bind(v, F(_)) == F(v)

Mp(t, v, w, s, a) == [t |-> t, v |-> v, w |-> w, s |-> s, a |-> a]

MpUint(v, w) == Mp("MP_UINT", v, w, <<>>, <<>>)
MpInt(v, w) == Mp("MP_INT", v, w, <<>>, <<>>)
MpFloat(v) == Mp("MP_FLOAT", v, 5, <<>>, <<>>)
MpDouble(v) == Mp("MP_DOUBLE", v, 9, <<>>, <<>>)
\* MP_EXT of subtype MP_DECIMAL holding the decimal number v
MpDecimal(v) == Mp("MP_EXT", v, 4, <<>>, <<>>)
MpNil == Mp("MP_NIL", 0, 1, <<>>, <<>>)
MpStrW(s, w) == Mp("MP_STR", 0, w, s, <<>>)
MpArrayW(a, w) == Mp("MP_ARRAY", 0, w, <<>>, a)
MpMapW(a, w) == Mp("MP_MAP", 0, w, <<>>, a)
\* the absence of data: a NULL pointer
NULL == Mp("NULL", 0, 0, <<>>, <<>>)

mp_typeof(x) == x.t

mp_sizeof_uint(num) ==
    IF num <= 127 THEN 1
    ELSE IF num <= 255 THEN 2
    ELSE IF num <= 65535 THEN 3
    ELSE IF num <= UINT32_MAX THEN 5
    ELSE 9

mp_sizeof_int(num) ==
    IF num >= -32 THEN 1
    ELSE IF num >= -128 THEN 2
    ELSE IF num >= -32768 THEN 3
    ELSE IF num >= INT32_MIN THEN 5
    ELSE 9

mp_sizeof_float == 5
mp_sizeof_double == 9

mp_sizeof_strl(len) == IF len <= 31 THEN 1 ELSE IF len <= 255 THEN 2 ELSE 3
mp_sizeof_str(len) == mp_sizeof_strl(len) + len
mp_sizeof_array(size) == IF size <= 15 THEN 1 ELSE IF size <= 65535 THEN 3 ELSE 5

\* mp_encode_*: the shortest encoding of the number
mp_encode_uint(num) ==
    MpUint(num, IF num < 128 THEN 1
                ELSE IF num < 256 THEN 2
                ELSE IF num < 65536 THEN 3
                ELSE IF num < UINT32_MAX + 1 THEN 5
                ELSE 9)

mp_encode_int(num) ==
    MpInt(num, IF num > -33 THEN 1
               ELSE IF num > -129 THEN 2
               ELSE IF num > -32769 THEN 3
               ELSE IF num > INT32_MIN - 1 THEN 5
               ELSE 9)

mp_encode_float(num) == MpFloat(num)
mp_encode_double(num) == MpDouble(num)
mp_encode_str(s) == MpStrW(s, mp_sizeof_strl(Len(s)))
mp_encode_array(a) == MpArrayW(a, mp_sizeof_array(Len(a)))
mp_encode_map(a) == MpMapW(a, mp_sizeof_array(Len(a) \div 2))

RECURSIVE SumSizes(_, _)
RECURSIVE mp_sizeof_value(_)
\* mp_next(): the number of bytes one value occupies
mp_sizeof_value(x) ==
    CASE x.t = "MP_STR" -> x.w + Len(x.s)
      [] x.t \in {"MP_ARRAY", "MP_MAP"} -> x.w + SumSizes(x.a, 1)
      [] OTHER -> x.w
SumSizes(a, i) ==
    IF i > Len(a) THEN 0 ELSE mp_sizeof_value(a[i]) + SumSizes(a, i + 1)

(***************************************************************************)
(* Floating point.  A double or a float is an integer with at most         *)
(* DblMantBits, FltMantBits significant bits; a conversion rounds to the   *)
(* nearest such number, ties to even.                                      *)
(***************************************************************************)
RECURSIVE BitLen(_)
BitLen(n) == IF n = 0 THEN 0 ELSE 1 + BitLen(n \div 2)

Abs(x) == IF x < 0 THEN -x ELSE x

\* m rounded to a multiple of q, ties to the even multiple
RoundAbs(m, q) ==
    LET lo == (m \div q) * q
    IN  IF 2 * (m - lo) > q \/ (2 * (m - lo) = q /\ (m \div q) % 2 = 1)
        THEN lo + q
        ELSE lo

RoundMant(x, p) ==
    IF BitLen(Abs(x)) <= p THEN x
    ELSE IF x < 0 THEN -RoundAbs(-x, 2^(BitLen(-x) - p))
    ELSE RoundAbs(x, 2^(BitLen(x) - p))

\* (double) of an integer, the result of a double operation
ToDouble(x) == RoundMant(x, DblMantBits)
\* (float) of a double
ToFloat(x) == RoundMant(x, FltMantBits)

(***************************************************************************)
(* Errors.  diag_set(ClientError, code, ...) leaves one error in the       *)
(* diagnostics area: its code, the opcode and the field number it was      *)
(* given (0 when the error takes none), the field name and the reason.     *)
(***************************************************************************)
Err(code, opcode, field, name, msg) ==
    [code |-> code, opcode |-> opcode, field |-> field, name |-> name,
     msg |-> msg]
NoErr == Err("OK", 0, 0, <<>>, "")

(***************************************************************************)
(* Opcodes are characters; a string is the sequence of its bytes.          *)
(***************************************************************************)
CH_SET == 61
CH_ADD == 43
CH_SUB == 45
CH_AND == 38
CH_OR == 124
CH_XOR == 94
CH_SPLICE == 58
CH_DELETE == 35
CH_INSERT == 33

\* enum arith_type
AT_DECIMAL == 0
AT_DOUBLE == 1
AT_FLOAT == 2
AT_INT == 3

\* struct op_arith_arg: the type and the value of the member in use
ArithArg(type, val) == [type |-> type, val |-> val]

\* union update_op_arg, every member side by side
NoArg ==
    [set_value |-> NULL, set_length |-> 0, del_count |-> 0,
     arith |-> ArithArg(AT_INT, 0), bit_val |-> 0,
     offset |-> 0, cut_length |-> 0, paste |-> <<>>, paste_length |-> 0,
     tail_offset |-> 0, tail_length |-> 0]

\* struct update_op_meta: the name of the table and its arg_count
\* the mutant of op_set: the count of op_splice
OpSetFiveArgs == [name |-> "op_set", arg_count |-> 5]

op_set == [name |-> "op_set", arg_count |-> 3]
op_insert == [name |-> "op_insert", arg_count |-> 3]
op_arith == [name |-> "op_arith", arg_count |-> 3]
op_bit == [name |-> "op_bit", arg_count |-> 3]
op_splice == [name |-> "op_splice", arg_count |-> 5]
op_delete == [name |-> "op_delete", arg_count |-> 3]
NoMeta == [name |-> "NULL", arg_count |-> 0]

\* struct update_op
UpdateOp(opcode, meta, field_no, arg, new_field_len) ==
    [opcode |-> opcode, meta |-> meta, field_no |-> field_no, arg |-> arg,
     new_field_len |-> new_field_len]

\* the result of a function that returns 0 or -1 and may set the diag
Ret(rc, op, diag) == [rc |-> rc, op |-> op, diag |-> diag]

(***************************************************************************)
(* read_arg helpers                                                        *)
(***************************************************************************)
\* mp_read_int32() of msgpuck: the formats of at most 32 bits only
mp_read_int32(x) ==
    CASE x.t = "MP_UINT" /\ x.w \in {1, 2, 3} -> [rc |-> 0, ret |-> x.v]
      [] x.t = "MP_UINT" /\ x.w = 5 /\ x.v <= INT32_MAX -> [rc |-> 0, ret |-> x.v]
      [] x.t = "MP_INT" /\ x.w \in {1, 2, 3, 5} -> [rc |-> 0, ret |-> x.v]
      [] OTHER -> [rc |-> -1, ret |-> 0]

\* mp_read_i32: ret is the integer read
mp_read_i32(op, x, index_base) ==
    Bind(mp_read_int32(x), LAMBDA r :
        IF r.rc = 0
        THEN [rc |-> 0, ret |-> r.ret, diag |-> NoErr]
        ELSE [rc |-> -1, ret |-> 0,
              diag |-> Err("ER_UPDATE_ARG_TYPE", op.opcode,
                           index_base + op.field_no, <<>>, "an integer")])

\* the mutant of mp_read_uint: any integer is read
MpReadUintAnyInt(op, x, index_base) ==
    IF mp_typeof(x) \in {"MP_UINT", "MP_INT"}
    THEN [rc |-> 0, ret |-> x.v, diag |-> NoErr]
    ELSE [rc |-> -1, ret |-> 0,
          diag |-> Err("ER_UPDATE_ARG_TYPE", op.opcode,
                       index_base + op.field_no, <<>>, "a positive integer")]

mp_read_uint(op, x, index_base) ==
    IF mp_typeof(x) = "MP_UINT"
    THEN [rc |-> 0, ret |-> x.v, diag |-> NoErr]
    ELSE [rc |-> -1, ret |-> 0,
          diag |-> Err("ER_UPDATE_ARG_TYPE", op.opcode,
                       index_base + op.field_no, <<>>, "a positive integer")]

mp_read_arith_arg(op, x, index_base) ==
    CASE mp_typeof(x) = "MP_UINT" ->
            [rc |-> 0, ret |-> ArithArg(AT_INT, x.v), diag |-> NoErr]
      [] mp_typeof(x) = "MP_INT" ->
            [rc |-> 0, ret |-> ArithArg(AT_INT, x.v), diag |-> NoErr]
      [] mp_typeof(x) = "MP_DOUBLE" ->
            [rc |-> 0, ret |-> ArithArg(AT_DOUBLE, x.v), diag |-> NoErr]
      [] mp_typeof(x) = "MP_FLOAT" ->
            [rc |-> 0, ret |-> ArithArg(AT_FLOAT, x.v), diag |-> NoErr]
      [] OTHER ->
            [rc |-> -1, ret |-> ArithArg(AT_INT, 0),
             diag |-> Err("ER_UPDATE_ARG_TYPE", op.opcode,
                          index_base + op.field_no, <<>>, "a number")]

mp_read_str(op, x, index_base) ==
    IF mp_typeof(x) # "MP_STR"
    THEN [rc |-> -1, ret |-> <<>>,
          diag |-> Err("ER_UPDATE_ARG_TYPE", op.opcode,
                       index_base + op.field_no, <<>>, "a string")]
    ELSE [rc |-> 0, ret |-> x.s, diag |-> NoErr]

(***************************************************************************)
(* read_arg: args are the elements of the operation after the field id     *)
(***************************************************************************)
read_arg_set(op, args, index_base) ==
    Ret(0, [op EXCEPT !.arg.set_value = args[1],
                      !.arg.set_length = mp_sizeof_value(args[1])], NoErr)

read_arg_insert(op, args, index_base) == read_arg_set(op, args, index_base)

\* the mutant of read_arg_delete: the count is checked and never stored
ReadArgDeleteNoCount(op, args, index_base) ==
    IF mp_typeof(args[1]) = "MP_UINT"
    THEN Ret(0, op, NoErr)
    ELSE Ret(-1, op, Err("ER_UPDATE_ARG_TYPE", op.opcode,
                         index_base + op.field_no, <<>>,
                         "a number of fields to delete"))

\* the mutant of read_arg_delete: the count stored is 1
ReadArgDeleteCountOne(op, args, index_base) ==
    IF mp_typeof(args[1]) = "MP_UINT"
    THEN Ret(0, [op EXCEPT !.arg.del_count = 1], NoErr)
    ELSE Ret(-1, op, Err("ER_UPDATE_ARG_TYPE", op.opcode,
                         index_base + op.field_no, <<>>,
                         "a number of fields to delete"))

read_arg_delete(op, args, index_base) ==
    IF mp_typeof(args[1]) = "MP_UINT"
    THEN Ret(0, [op EXCEPT !.arg.del_count = args[1].v % (UINT32_MAX + 1)],
             NoErr)
    ELSE Ret(-1, op, Err("ER_UPDATE_ARG_TYPE", op.opcode,
                         index_base + op.field_no, <<>>,
                         "a number of fields to delete"))

read_arg_arith(op, args, index_base) ==
    Bind(mp_read_arith_arg(op, args[1], index_base), LAMBDA r :
        IF r.rc = 0 THEN Ret(0, [op EXCEPT !.arg.arith = r.ret], NoErr)
        ELSE Ret(-1, op, r.diag))

read_arg_bit(op, args, index_base) ==
    Bind(mp_read_uint(op, args[1], index_base), LAMBDA r :
        IF r.rc = 0 THEN Ret(0, [op EXCEPT !.arg.bit_val = r.ret], NoErr)
        ELSE Ret(-1, op, r.diag))

read_arg_splice(op, args, index_base) ==
    Bind(mp_read_i32(op, args[1], index_base), LAMBDA o :
        IF o.rc # 0 THEN Ret(-1, op, o.diag)
        ELSE Bind(mp_read_i32(op, args[2], index_base), LAMBDA c :
        IF c.rc # 0 THEN Ret(-1, [op EXCEPT !.arg.offset = o.ret], c.diag)
        ELSE Bind(mp_read_str(op, args[3], index_base), LAMBDA p :
        IF p.rc # 0
        THEN Ret(-1, [op EXCEPT !.arg.offset = o.ret,
                                !.arg.cut_length = c.ret], p.diag)
        ELSE Ret(0, [op EXCEPT !.arg.offset = o.ret,
                               !.arg.cut_length = c.ret,
                               !.arg.paste = p.ret,
                               !.arg.paste_length = Len(p.ret)], NoErr))))

\* op->meta->read_arg_f
read_arg_f(op, args, index_base) ==
    CASE op.meta.name = "op_set" -> read_arg_set(op, args, index_base)
      [] op.meta.name = "op_insert" -> read_arg_insert(op, args, index_base)
      [] op.meta.name = "op_arith" -> read_arg_arith(op, args, index_base)
      [] op.meta.name = "op_bit" -> read_arg_bit(op, args, index_base)
      [] op.meta.name = "op_splice" -> read_arg_splice(op, args, index_base)
      [] op.meta.name = "op_delete" -> read_arg_delete(op, args, index_base)

(***************************************************************************)
(* Operation decoding                                                      *)
(***************************************************************************)
update_op_by(opcode) ==
    CASE opcode = CH_SET -> op_set
      [] opcode \in {CH_ADD, CH_SUB} -> op_arith
      [] opcode \in {CH_AND, CH_OR, CH_XOR} -> op_bit
      [] opcode = CH_SPLICE -> op_splice
      [] opcode = CH_DELETE -> op_delete
      [] opcode = CH_INSERT -> op_insert
      [] OTHER -> NoMeta

\* the first byte of an encoded value, as mp_typeof() and mp_decode_*() see it
FirstByte(x) ==
    CASE x.t = "MP_UINT" ->
            (CASE x.w = 1 -> x.v [] x.w = 2 -> 204 [] x.w = 3 -> 205
               [] x.w = 5 -> 206 [] OTHER -> 207)
      [] x.t = "MP_INT" ->
            (CASE x.w = 1 -> 256 + x.v [] x.w = 2 -> 208 [] x.w = 3 -> 209
               [] x.w = 5 -> 210 [] OTHER -> 211)
      [] x.t = "MP_STR" ->
            (CASE x.w = 1 -> 160 + Len(x.s) [] x.w = 2 -> 217
               [] x.w = 3 -> 218 [] OTHER -> 219)
      [] x.t = "MP_ARRAY" ->
            (CASE x.w = 1 -> 144 + Len(x.a) [] x.w = 3 -> 220 [] OTHER -> 221)
      [] x.t = "MP_MAP" ->
            (CASE x.w = 1 -> 128 + (Len(x.a) \div 2) [] x.w = 3 -> 222
               [] OTHER -> 223)
      [] x.t = "MP_FLOAT" -> 202
      [] x.t = "MP_DOUBLE" -> 203
      [] x.t = "MP_EXT" -> 199
      [] OTHER -> 192

(***************************************************************************)
(* The negation of INT32_MIN in update_op_do_splice and the subtraction    *)
(* INT32_MIN - 1 in update_op_decode overflow, which the language leaves   *)
(* undefined.  A build is one of: "exact", the compiler has folded the     *)
(* comparison and it is decided in the integers; "wrap", the operation     *)
(* wraps and the assertions are compiled out; "wrap_assert", the operation *)
(* wraps and the assertions are checked.                                   *)
(***************************************************************************)
VARIABLE build

Builds == {"exact", "wrap", "wrap_assert"}

\* int32_t arithmetic that wraps
I32Wrap(x) ==
    LET m == UINT32_MAX + 1
        r == x % m
    IN  IF r > INT32_MAX THEN r - m ELSE r

\* -x of an int32_t in the build
Neg32(x) == IF build = "exact" THEN -x ELSE I32Wrap(-x)

\* x - y of int32_t in the build
Sub32(x, y) == IF build = "exact" THEN x - y ELSE I32Wrap(x - y)

\* tuple_fieldno_by_name(): dict is the sequence of the field names
tuple_fieldno_by_name(dict, name) ==
    IF \E i \in 1..Len(dict) : dict[i] = name
    THEN [rc |-> 0, fieldno |-> (CHOOSE i \in 1..Len(dict) : dict[i] = name) - 1]
    ELSE [rc |-> -1, fieldno |-> 0]

\* *mp_decode_str(expr, &len) of the operation name: the byte at the start
\* of the string data, which for an empty string is the next byte of the
\* buffer (past a one-element operation its value decides nothing: the
\* length check rejects the operation)
OpcodeByte(x) ==
    IF Len(x.a[1].s) > 0 THEN x.a[1].s[1]
    ELSE IF Len(x.a) > 1 THEN FirstByte(x.a[2])
    ELSE 0

\* the mutant of the switch: a field id below zero is taken for one below
\* the index base
DecodeFieldNoNegativeRejected(op, target, index_base, dict) ==
    CASE mp_typeof(target) \in {"MP_INT", "MP_UINT"} ->
            Bind(mp_read_i32(op, target, index_base), LAMBDA r :
                IF r.rc # 0 THEN [rc |-> -1, field_no |-> 0, diag |-> r.diag]
                ELSE IF Sub32(r.ret, index_base) >= 0
                THEN [rc |-> 0, field_no |-> Sub32(r.ret, index_base),
                      diag |-> NoErr]
                ELSE [rc |-> -1, field_no |-> 0,
                      diag |-> Err("ER_NO_SUCH_FIELD_NO", 0, r.ret, <<>>, "")])
      [] mp_typeof(target) = "MP_STR" ->
            Bind(tuple_fieldno_by_name(dict, target.s), LAMBDA f :
                IF f.rc # 0
                THEN [rc |-> -1, field_no |-> 0,
                      diag |-> Err("ER_NO_SUCH_FIELD_NAME", 0, 0, target.s, "")]
                ELSE [rc |-> 0, field_no |-> f.fieldno, diag |-> NoErr])
      [] OTHER ->
            [rc |-> -1, field_no |-> 0,
             diag |-> Err("ER_ILLEGAL_PARAMS", 0, 0, <<>>,
                          "field id must be a number or a string")]

\* the switch of update_op_decode on the type of the field id: rc, the
\* value of op->field_no, the diag
DecodeFieldNo(op, target, index_base, dict) ==
    CASE mp_typeof(target) \in {"MP_INT", "MP_UINT"} ->
            Bind(mp_read_i32(op, target, index_base), LAMBDA r :
                IF r.rc # 0 THEN [rc |-> -1, field_no |-> 0, diag |-> r.diag]
                ELSE IF Sub32(r.ret, index_base) >= 0
                THEN [rc |-> 0, field_no |-> Sub32(r.ret, index_base),
                      diag |-> NoErr]
                ELSE IF r.ret < 0
                THEN [rc |-> 0, field_no |-> r.ret, diag |-> NoErr]
                ELSE [rc |-> -1, field_no |-> 0,
                      diag |-> Err("ER_NO_SUCH_FIELD_NO", 0, r.ret, <<>>, "")])
      [] mp_typeof(target) = "MP_STR" ->
            Bind(tuple_fieldno_by_name(dict, target.s), LAMBDA f :
                IF f.rc # 0
                THEN [rc |-> -1, field_no |-> 0,
                      diag |-> Err("ER_NO_SUCH_FIELD_NAME", 0, 0, target.s, "")]
                ELSE [rc |-> 0, field_no |-> f.fieldno, diag |-> NoErr])
      [] OTHER ->
            [rc |-> -1, field_no |-> 0,
             diag |-> Err("ER_ILLEGAL_PARAMS", 0, 0, <<>>,
                          "field id must be a number or a string")]

(***************************************************************************)
(* update_op_decode: x is the encoded operation, junk the content of the   *)
(* freshly allocated op->field_no, which is read before it is set when the *)
(* field id is an integer that mp_read_i32 rejects.                        *)
(***************************************************************************)
\* the mutant of update_op_decode: the type of the name is not checked
UpdateOpDecodeNameUnchecked(x, index_base, dict, junk) ==
    IF mp_typeof(x) # "MP_ARRAY"
    THEN Ret(-1, UpdateOp(0, NoMeta, junk, NoArg, 0),
             Err("ER_ILLEGAL_PARAMS", 0, 0, <<>>,
                 "update operation must be an array {op,..}"))
    ELSE IF Len(x.a) < 1
    THEN Ret(-1, UpdateOp(0, NoMeta, junk, NoArg, 0),
             Err("ER_ILLEGAL_PARAMS", 0, 0, <<>>,
                 "update operation must be an array {op,..}, got empty array"))
    ELSE Bind(OpcodeByte(x), LAMBDA opcode :
         Bind(UpdateOp(opcode, update_op_by(opcode), junk, NoArg, 0), LAMBDA op :
    IF op.meta = NoMeta
    THEN Ret(-1, op, Err("ER_UNKNOWN_UPDATE_OP", 0, 0, <<>>, ""))
    ELSE IF Len(x.a) # op.meta.arg_count
    THEN Ret(-1, op, Err("ER_UNKNOWN_UPDATE_OP", 0, 0, <<>>, ""))
    ELSE Bind(DecodeFieldNo(op, x.a[2], index_base, dict), LAMBDA f :
         IF f.rc # 0 THEN Ret(-1, op, f.diag)
         ELSE read_arg_f([op EXCEPT !.field_no = f.field_no],
                         SubSeq(x.a, 3, Len(x.a)), index_base))))

update_op_decode(x, index_base, dict, junk) ==
    IF mp_typeof(x) # "MP_ARRAY"
    THEN Ret(-1, UpdateOp(0, NoMeta, junk, NoArg, 0),
             Err("ER_ILLEGAL_PARAMS", 0, 0, <<>>,
                 "update operation must be an array {op,..}"))
    ELSE IF Len(x.a) < 1
    THEN Ret(-1, UpdateOp(0, NoMeta, junk, NoArg, 0),
             Err("ER_ILLEGAL_PARAMS", 0, 0, <<>>,
                 "update operation must be an array {op,..}, got empty array"))
    ELSE IF mp_typeof(x.a[1]) # "MP_STR"
    THEN Ret(-1, UpdateOp(0, NoMeta, junk, NoArg, 0),
             Err("ER_ILLEGAL_PARAMS", 0, 0, <<>>,
                 "update operation name must be a string"))
    ELSE Bind(OpcodeByte(x), LAMBDA opcode :
         Bind(UpdateOp(opcode, update_op_by(opcode), junk, NoArg, 0), LAMBDA op :
    IF op.meta = NoMeta
    THEN Ret(-1, op, Err("ER_UNKNOWN_UPDATE_OP", 0, 0, <<>>, ""))
    ELSE IF Len(x.a) # op.meta.arg_count
    THEN Ret(-1, op, Err("ER_UNKNOWN_UPDATE_OP", 0, 0, <<>>, ""))
    ELSE Bind(DecodeFieldNo(op, x.a[2], index_base, dict), LAMBDA f :
         IF f.rc # 0 THEN Ret(-1, op, f.diag)
         ELSE read_arg_f([op EXCEPT !.field_no = f.field_no],
                         SubSeq(x.a, 3, Len(x.a)), index_base))))

(***************************************************************************)
(* struct int96_num: a signed accumulator wider than the 64-bit word.      *)
(***************************************************************************)
Int96Wrap(x) ==
    LET m == 2^(WordBits + AccExtraBits)
        r == x % m
    IN  IF 2 * r >= m THEN r - m ELSE r

int96_add(a, b) == Int96Wrap(a + b)
int96_invert(a) == Int96Wrap(-a)
int96_is_uint64(a) == a >= 0 /\ a <= UINT64_MAX
int96_is_neg_int64(a) == a < 0 /\ a >= INT64_MIN

(***************************************************************************)
(* do_op helpers                                                           *)
(***************************************************************************)
cast_arith_arg_to_double(arg) ==
    IF arg.type = AT_DOUBLE THEN arg.val
    ELSE IF arg.type = AT_FLOAT THEN arg.val
    ELSE ToDouble(arg.val)

update_arith_sizeof(arg) ==
    IF arg.type = AT_INT
    THEN IF int96_is_uint64(arg.val) THEN mp_sizeof_uint(arg.val)
         ELSE mp_sizeof_int(arg.val)
    ELSE IF arg.type = AT_DOUBLE THEN mp_sizeof_double
    ELSE mp_sizeof_float

\* the mutant of the classification of the operand types: the highest code
\* of the two instead of the lowest
LowestTypeSwapped(t1, t2) == IF t1 > t2 THEN t1 ELSE t2

\* lowest_type of make_arith_operation
LowestType(t1, t2) == IF t1 > t2 THEN t2 ELSE t1

\* the mutant of the integer branch: a 64-bit accumulator, which wraps
IntResultWrapped(arg1, arg2, opcode) ==
    LET m == UINT64_MAX + 1
        x == IF opcode = CH_ADD THEN arg1.val + arg2.val ELSE arg1.val - arg2.val
    IN  IF x >= 0 THEN x % m ELSE x

\* the integer branch of make_arith_operation, before the range check
IntResult(arg1, arg2, opcode) ==
    IF opcode = CH_ADD THEN int96_add(arg1.val, arg2.val)
    ELSE int96_add(arg1.val, int96_invert(arg2.val))

\* the floating branch of make_arith_operation, before the type is chosen
DoubleResult(a, b, opcode) ==
    IF opcode = CH_ADD THEN ToDouble(a + b) ELSE ToDouble(a - b)

\* make_arith_operation: ret is the result of arg1 opcode arg2
make_arith_operation(arg1, arg2, opcode, err_fieldno) ==
    Bind(LowestType(arg1.type, arg2.type), LAMBDA lowest_type :
        IF lowest_type = AT_INT
        THEN Bind(IntResult(arg1, arg2, opcode), LAMBDA sum :
                 IF ~int96_is_uint64(sum) /\ ~int96_is_neg_int64(sum)
                 THEN [rc |-> -1, ret |-> arg2,
                       diag |-> Err("ER_UPDATE_INTEGER_OVERFLOW", opcode,
                                    err_fieldno, <<>>, "")]
                 ELSE [rc |-> 0, ret |-> ArithArg(AT_INT, sum), diag |-> NoErr])
        ELSE Bind(DoubleResult(cast_arith_arg_to_double(arg1),
                               cast_arith_arg_to_double(arg2), opcode),
                  LAMBDA c :
                 IF opcode \notin {CH_ADD, CH_SUB}
                 THEN [rc |-> -1, ret |-> arg2,
                       diag |-> Err("ER_UPDATE_ARG_TYPE", opcode, err_fieldno,
                                    <<>>, "a positive integer")]
                 ELSE IF lowest_type = AT_DOUBLE
                 THEN [rc |-> 0, ret |-> ArithArg(AT_DOUBLE, c), diag |-> NoErr]
                 ELSE \* assert(lowest_type == AT_FLOAT)
                      [rc |-> 0, ret |-> ArithArg(AT_FLOAT, ToFloat(c)),
                       diag |-> NoErr]))

update_op_do_arith(op, old, index_base) ==
    Bind(mp_read_arith_arg(op, old, index_base), LAMBDA left :
        IF left.rc # 0 THEN Ret(-1, op, left.diag)
        ELSE Bind(make_arith_operation(left.ret, op.arg.arith, op.opcode,
                                       index_base + op.field_no), LAMBDA r :
        IF r.rc # 0 THEN Ret(-1, op, r.diag)
        ELSE Ret(0, [op EXCEPT !.arg.arith = r.ret,
                               !.new_field_len = update_arith_sizeof(r.ret)],
                 NoErr)))

\* the bits of a 64-bit word, lowest first, and the word of a bit operation
RECURSIVE BitOp(_, _, _, _)
BitOp(opcode, a, b, n) ==
    IF n = 0 THEN 0
    ELSE LET x == a % 2
             y == b % 2
             z == CASE opcode = CH_AND -> IF x = 1 /\ y = 1 THEN 1 ELSE 0
                    [] opcode = CH_XOR -> IF x # y THEN 1 ELSE 0
                    [] OTHER -> IF x = 1 \/ y = 1 THEN 1 ELSE 0
         IN  z + 2 * BitOp(opcode, a \div 2, b \div 2, n - 1)

\* the mutant of update_op_do_bit: every bit operation is done as an or
UpdateOpDoBitAsOr(op, old, index_base) ==
    Bind(mp_read_uint(op, old, index_base), LAMBDA r :
        IF r.rc # 0 THEN Ret(-1, op, r.diag)
        ELSE Bind(BitOp(CH_OR, op.arg.bit_val, r.ret, WordBits), LAMBDA val :
        Ret(0, [op EXCEPT !.arg.bit_val = val,
                          !.new_field_len = mp_sizeof_uint(val)], NoErr)))

update_op_do_bit(op, old, index_base) ==
    Bind(mp_read_uint(op, old, index_base), LAMBDA r :
        IF r.rc # 0 THEN Ret(-1, op, r.diag)
        ELSE Bind(BitOp(op.opcode, op.arg.bit_val, r.ret, WordBits), LAMBDA val :
        Ret(0, [op EXCEPT !.arg.bit_val = val,
                          !.new_field_len = mp_sizeof_uint(val)], NoErr)))

\* the offset of update_op_do_splice after its first if .. else if .. else
SpliceOffset(offset, str_len, index_base) ==
    IF offset < 0 THEN I32Wrap(offset + str_len + 1)
    ELSE IF offset - index_base > str_len THEN str_len
    ELSE offset - index_base

\* the mutant of the cut_length: zero is taken with the lengths below zero
SpliceCutLengthNonPositive(cut_length, offset, str_len) ==
    IF cut_length <= 0
    THEN IF Neg32(cut_length) > str_len - offset THEN 0
         ELSE I32Wrap(cut_length + (str_len - offset))
    ELSE IF cut_length > str_len - offset THEN str_len - offset
    ELSE cut_length

\* the cut_length of update_op_do_splice after its second if .. else if
SpliceCutLength(cut_length, offset, str_len) ==
    IF cut_length < 0
    THEN IF Neg32(cut_length) > str_len - offset THEN 0
         ELSE I32Wrap(cut_length + (str_len - offset))
    ELSE IF cut_length > str_len - offset THEN str_len - offset
    ELSE cut_length

update_op_do_splice(op, old, index_base) ==
    Bind(mp_read_str(op, old, index_base), LAMBDA r :
    Bind(Len(r.ret), LAMBDA str_len :
        IF r.rc # 0 THEN Ret(-1, op, r.diag)
        ELSE IF \/ op.arg.offset < 0 /\ Neg32(op.arg.offset) > str_len + 1
                \/ op.arg.offset >= 0 /\ ~(op.arg.offset - index_base >= 0)
        THEN Ret(-1, op, Err("ER_SPLICE", 0, index_base + op.field_no, <<>>,
                             "offset is out of bound"))
        ELSE Bind(SpliceOffset(op.arg.offset, str_len, index_base),
                  LAMBDA offset :
             \* assert(arg->offset >= 0 && arg->offset <= str_len)
             IF build = "wrap_assert" /\ ~(offset >= 0 /\ offset <= str_len)
             THEN Ret(-2, [op EXCEPT !.arg.offset = offset], NoErr)
             ELSE
             Bind(SpliceCutLength(op.arg.cut_length, offset, str_len),
                  LAMBDA cut_length :
             Bind(I32Wrap(offset + cut_length), LAMBDA tail_offset :
             Bind(I32Wrap(str_len - tail_offset), LAMBDA tail_length :
                 Ret(0, [op EXCEPT
                           !.arg.offset = offset,
                           !.arg.cut_length = cut_length,
                           !.arg.tail_offset = tail_offset,
                           !.arg.tail_length = tail_length,
                           !.new_field_len =
                               mp_sizeof_str(offset + op.arg.paste_length
                                             + tail_length)],
                     NoErr)))))))

(***************************************************************************)
(* store_op: the bytes an executed operation writes for its field          *)
(***************************************************************************)
\* the mutant of store_op_set: the value is encoded anew, in the shortest
\* encoding
StoreOpSetReencoded(op, in) ==
    IF op.arg.set_value.t = "MP_UINT" THEN mp_encode_uint(op.arg.set_value.v)
    ELSE op.arg.set_value

store_op_set(op, in) == op.arg.set_value

\* the mutant of store_op_arith: a result that fits int64_t is stored signed
StoreOpArithSigned(op, in) ==
    LET arg == op.arg.arith
    IN  IF arg.type = AT_INT
        THEN IF arg.val > -INT64_MIN - 1 THEN mp_encode_uint(arg.val)
             ELSE mp_encode_int(arg.val)
        ELSE IF arg.type = AT_DOUBLE THEN mp_encode_double(arg.val)
        ELSE mp_encode_float(arg.val)

store_op_arith(op, in) ==
    LET arg == op.arg.arith
    IN  IF arg.type = AT_INT
        THEN IF int96_is_uint64(arg.val) THEN mp_encode_uint(arg.val)
             ELSE mp_encode_int(arg.val)
        ELSE IF arg.type = AT_DOUBLE THEN mp_encode_double(arg.val)
        ELSE mp_encode_float(arg.val)

store_op_bit(op, in) == mp_encode_uint(op.arg.bit_val)

\* the mutant of store_op_splice: the tail is copied from the offset, the
\* bytes cut are kept
StoreOpSpliceTailAtOffset(op, in) ==
    LET arg == op.arg
    IN  mp_encode_str(SubSeq(in.s, 1, arg.offset) \o arg.paste
                      \o SubSeq(in.s, arg.offset + 1,
                                arg.offset + arg.tail_length))

store_op_splice(op, in) ==
    LET arg == op.arg
    IN  mp_encode_str(SubSeq(in.s, 1, arg.offset) \o arg.paste
                      \o SubSeq(in.s, arg.tail_offset + 1,
                                arg.tail_offset + arg.tail_length))

\* op->meta->store_f
store_f(op, in) ==
    CASE op.meta.name \in {"op_set", "op_insert"} -> store_op_set(op, in)
      [] op.meta.name = "op_arith" -> store_op_arith(op, in)
      [] op.meta.name = "op_bit" -> store_op_bit(op, in)
      [] op.meta.name = "op_splice" -> store_op_splice(op, in)

(***************************************************************************)
(* The update tree.  struct update_field: type, data and size of the old   *)
(* field, the operation of a scalar update, the children of an array       *)
(* update (the rope, as the sequence of its fields).                       *)
(***************************************************************************)
NoOp == UpdateOp(0, NoMeta, 0, NoArg, 0)

Field(type, data, size, op, rope) ==
    [type |-> type, data |-> data, size |-> size, op |-> op, rope |-> rope]

\* an untouched slice of the record
NopField(data) == Field("UPDATE_NOP", data, mp_sizeof_value(data), NoOp, <<>>)

\* the result of a do_op function: rc, the operation and the field as the
\* call leaves them, the diag
DoRet(rc, op, field, diag) ==
    [rc |-> rc, op |-> op, field |-> field, diag |-> diag]

\* update_err: the error of an operation on its field, with the reason
update_err(op, index_base, reason) ==
    Err("ER_UPDATE_FIELD", op.opcode,
        IF op.field_no >= 0 THEN index_base + op.field_no ELSE op.field_no,
        <<>>, reason)

\* the mutant of the double update error: the reason of update_err_duplicate
UpdateErrDoubleAsDuplicate(op, index_base) ==
    update_err(op, index_base, "the key exists already")

update_err_double(op, index_base) ==
    update_err(op, index_base, "double update of the same field")

update_err_no_such_field(op, index_base) ==
    Err("ER_NO_SUCH_FIELD_NO", 0,
        IF op.field_no >= 0 THEN index_base + op.field_no ELSE op.field_no,
        <<>>, "")

(***************************************************************************)
(* Array updates                                                           *)
(***************************************************************************)
\* update_array_create: one child per field of the old array
update_array_create(field) ==
    Field("UPDATE_ARRAY", field.data, field.size, NoOp,
          [i \in 1..Len(field.data.a) |-> NopField(field.data.a[i])])

\* a field number below zero counts from the end of the max_num positions
update_op_adjust_field_no(op, max_num) ==
    IF op.field_no >= 0
    THEN IF op.field_no < max_num THEN [rc |-> 0, field_no |-> op.field_no]
         ELSE [rc |-> -1, field_no |-> op.field_no]
    ELSE IF op.field_no + max_num >= 0
         THEN [rc |-> 0, field_no |-> op.field_no + max_num]
         ELSE [rc |-> -1, field_no |-> op.field_no]

InsertAt(seq, i, x) == SubSeq(seq, 1, i) \o <<x>> \o SubSeq(seq, i + 1, Len(seq))
EraseRange(seq, i, n) == SubSeq(seq, 1, i) \o SubSeq(seq, i + n + 1, Len(seq))

do_op_array_insert(op, field, index_base) ==
    Bind(update_op_adjust_field_no(op, Len(field.rope) + 1), LAMBDA adj :
        IF adj.rc # 0
        THEN DoRet(-1, op, field, update_err_no_such_field(op, index_base))
        ELSE DoRet(0, [op EXCEPT !.field_no = adj.field_no],
                   [field EXCEPT !.rope =
                       InsertAt(field.rope, adj.field_no,
                                Field("UPDATE_NOP", op.arg.set_value,
                                      op.arg.set_length, NoOp, <<>>))],
                   NoErr))

do_op_array_set(op, field, index_base) ==
    IF op.field_no = Len(field.rope)
    THEN do_op_array_insert(op, field, index_base)
    ELSE Bind(update_op_adjust_field_no(op, Len(field.rope)), LAMBDA adj :
         Bind([op EXCEPT !.field_no = adj.field_no,
                         !.new_field_len = op.arg.set_length], LAMBDA op1 :
        IF adj.rc # 0
        THEN DoRet(-1, op, field, update_err_no_such_field(op, index_base))
        ELSE IF field.rope[adj.field_no + 1].type # "UPDATE_NOP"
        THEN DoRet(-1, op1, field, update_err_double(op1, index_base))
        ELSE DoRet(0, op1,
                   [field EXCEPT !.rope[adj.field_no + 1].type = "UPDATE_SCALAR",
                                 !.rope[adj.field_no + 1].op = op1],
                   NoErr)))

do_op_array_delete(op, field, index_base) ==
    Bind(update_op_adjust_field_no(op, Len(field.rope)), LAMBDA adj :
    Bind([op EXCEPT !.field_no = adj.field_no], LAMBDA op1 :
        IF adj.rc # 0
        THEN DoRet(-1, op, field, update_err_no_such_field(op, index_base))
        ELSE IF adj.field_no + op.arg.del_count > Len(field.rope)
        THEN DoRet(-1, op1, field, update_err_no_such_field(op1, index_base))
        ELSE DoRet(0, op1,
                   [field EXCEPT !.rope = EraseRange(field.rope, adj.field_no,
                                                     op.arg.del_count)],
                   NoErr)))

\* update_op_do_arith, update_op_do_bit or update_op_do_splice, by the meta
update_op_do_scalar(op, old, index_base) ==
    CASE op.meta.name = "op_arith" -> update_op_do_arith(op, old, index_base)
      [] op.meta.name = "op_bit" -> update_op_do_bit(op, old, index_base)
      [] op.meta.name = "op_splice" -> update_op_do_splice(op, old, index_base)

\* do_op_array_arith, do_op_array_bit, do_op_array_splice
do_op_array_scalar(op, field, index_base) ==
    Bind(update_op_adjust_field_no(op, Len(field.rope)), LAMBDA adj :
    Bind([op EXCEPT !.field_no = adj.field_no], LAMBDA op1 :
        IF adj.rc # 0
        THEN DoRet(-1, op, field, update_err_no_such_field(op, index_base))
        ELSE IF field.rope[adj.field_no + 1].type # "UPDATE_NOP"
        THEN DoRet(-1, op1, field, update_err_double(op1, index_base))
        ELSE Bind(update_op_do_scalar(op1, field.rope[adj.field_no + 1].data,
                                      index_base), LAMBDA r :
             IF r.rc # 0 THEN DoRet(r.rc, r.op, field, r.diag)
             ELSE DoRet(0, r.op,
                        [field EXCEPT
                           !.rope[adj.field_no + 1].type = "UPDATE_SCALAR",
                           !.rope[adj.field_no + 1].op = r.op],
                        NoErr))))

\* do_op_array_<op_type>
do_op_array(op, field, index_base) ==
    CASE op.meta.name = "op_set" -> do_op_array_set(op, field, index_base)
      [] op.meta.name = "op_insert" -> do_op_array_insert(op, field, index_base)
      [] op.meta.name = "op_delete" -> do_op_array_delete(op, field, index_base)
      [] OTHER -> do_op_array_scalar(op, field, index_base)

\* do_op_nop_<op_type>: the untouched array becomes an array update
do_op_nop(op, field, index_base) ==
    do_op_array(op, update_array_create(field), index_base)

\* the mutant of the dispatch: an array update is taken for an untouched
\* field, and the array is created again from the old data
DoOpArrayAsNop(op, field, index_base) == do_op_nop(op, field, index_base)

\* do_op_<op_type> of OP_DECL_GENERIC: by the type of the field
do_op(op, field, index_base) ==
    CASE field.type = "UPDATE_ARRAY" -> do_op_array(op, field, index_base)
      [] field.type = "UPDATE_NOP" -> do_op_nop(op, field, index_base)

(***************************************************************************)
(* Serialisation: the size of the updated field, and the bytes stored      *)
(* with the count of bytes written.                                        *)
(***************************************************************************)
RECURSIVE update_field_sizeof(_)
RECURSIVE update_field_store(_)
RECURSIVE RopeSizeof(_, _)
RECURSIVE RopeStore(_, _)

RopeSizeof(rope, i) ==
    IF i > Len(rope) THEN 0
    ELSE update_field_sizeof(rope[i]) + RopeSizeof(rope, i + 1)

RopeStore(rope, i) ==
    IF i > Len(rope) THEN [n |-> 0, out |-> <<>>]
    ELSE Bind(update_field_store(rope[i]), LAMBDA h :
         Bind(RopeStore(rope, i + 1), LAMBDA t :
             [n |-> h.n + t.n, out |-> <<h.out>> \o t.out]))

update_array_sizeof(field) ==
    mp_sizeof_array(Len(field.rope)) + RopeSizeof(field.rope, 1)

update_array_store(field) ==
    Bind(RopeStore(field.rope, 1), LAMBDA r :
        [n |-> mp_sizeof_array(Len(field.rope)) + r.n,
         out |-> mp_encode_array(r.out)])

\* the mutant of the store of an untouched field: the value is encoded anew
NopStoreReencoded(field) ==
    [n |-> field.size,
     out |-> CASE field.data.t = "MP_UINT" -> mp_encode_uint(field.data.v)
               [] field.data.t = "MP_ARRAY" -> mp_encode_array(field.data.a)
               [] OTHER -> field.data]

\* case UPDATE_NOP of update_field_store
NopStore(field) == [n |-> field.size, out |-> field.data]

update_field_sizeof(field) ==
    CASE field.type = "UPDATE_NOP" -> field.size
      [] field.type = "UPDATE_SCALAR" -> field.op.new_field_len
      [] field.type = "UPDATE_ARRAY" -> update_array_sizeof(field)

update_field_store(field) ==
    CASE field.type = "UPDATE_NOP" -> NopStore(field)
      [] field.type = "UPDATE_SCALAR" ->
            [n |-> field.op.new_field_len, out |-> store_f(field.op, field.data)]
      [] field.type = "UPDATE_ARRAY" -> update_array_store(field)

\* the copies of store_op_splice of a field of the array leave the old
\* string or have a length below zero
SpliceFault(field) ==
    \E i \in 1..Len(field.rope) :
        /\ field.rope[i].type = "UPDATE_SCALAR"
        /\ field.rope[i].op.meta.name = "op_splice"
        /\ \E arg \in {field.rope[i].op.arg} :
               ~(/\ arg.offset >= 0
                 /\ arg.offset <= Len(field.rope[i].data.s)
                 /\ arg.tail_offset >= 0
                 /\ arg.tail_length >= 0
                 /\ arg.tail_offset + arg.tail_length
                        <= Len(field.rope[i].data.s))

(***************************************************************************)
(* Bar updates.  An operation with a JSON path that no other operation     *)
(* shares is kept on the untouched field with the rest of its path: the    *)
(* containers on the path are not made arrays of the tree.  The lexer of   *)
(* the operation is the sequence of the tokens not consumed yet, each a    *)
(* position counted from 0.                                                *)
(***************************************************************************)
JSON_LBRACKET == 91
JSON_RBRACKET == 93
JSON_ZERO == 48

RECURSIVE JsonNum(_, _, _)
\* the digits of s from i on: the number and the position after it
JsonNum(s, i, acc) ==
    IF i <= Len(s) /\ s[i] \in JSON_ZERO..(JSON_ZERO + 9)
    THEN JsonNum(s, i + 1, acc * 10 + (s[i] - JSON_ZERO))
    ELSE [num |-> acc, next |-> i]

RECURSIVE JsonLex(_, _, _)
\* json_lexer_next_token to the end of the path: the tokens [n], each
\* n - index_base, or <<-1>> for a path that is no sequence of [n]
JsonLex(s, i, index_base) ==
    IF i > Len(s) THEN <<>>
    ELSE IF s[i] # JSON_LBRACKET THEN <<-1>>
    ELSE Bind(JsonNum(s, i + 1, 0), LAMBDA n :
         IF n.next = i + 1 \/ n.next > Len(s) \/ s[n.next] # JSON_RBRACKET
            \/ n.num < index_base
         THEN <<-1>>
         ELSE Bind(JsonLex(s, n.next + 1, index_base), LAMBDA rest :
              IF rest = <<-1>> THEN rest ELSE <<n.num - index_base>> \o rest))

\* an operation and its lexer
PathOp(op, lexer) == [op |-> op, lexer |-> lexer]

\* update_op_is_term
update_op_is_term(pop) == pop.lexer = <<>>

\* update_op_decode of an operation whose target is a path [n][m]..: the
\* first token is the field of the record, the rest stays in the lexer
update_op_decode_path(x, index_base, dict, junk) ==
    IF mp_typeof(x) = "MP_ARRAY" /\ Len(x.a) >= 2 /\ mp_typeof(x.a[2]) = "MP_STR"
    THEN Bind(JsonLex(x.a[2].s, 1, 0), LAMBDA raw :
         IF raw = <<-1>> \/ raw = <<>>
         THEN Bind(update_op_decode(x, index_base, dict, junk), LAMBDA r :
              [rc |-> r.rc, pop |-> PathOp(r.op, <<>>), diag |-> r.diag])
         ELSE Bind(update_op_decode([x EXCEPT !.a[2] = mp_encode_uint(raw[1])],
                                    index_base, dict, junk), LAMBDA r :
              Bind(JsonLex(x.a[2].s, 1, index_base), LAMBDA toks :
              IF r.rc # 0
              THEN [rc |-> r.rc, pop |-> PathOp(r.op, <<>>), diag |-> r.diag]
              ELSE IF toks = <<-1>>
              THEN [rc |-> -1, pop |-> PathOp(r.op, <<>>),
                    diag |-> update_err(r.op, index_base, "invalid JSON")]
              ELSE [rc |-> 0, pop |-> PathOp(r.op, Tail(toks)), diag |-> NoErr])))
    ELSE Bind(update_op_decode(x, index_base, dict, junk), LAMBDA r :
         [rc |-> r.rc, pop |-> PathOp(r.op, <<>>), diag |-> r.diag])

\* struct update_field of the type UPDATE_BAR: the operation and its path
BarField(data, op, path) ==
    [type |-> "UPDATE_BAR", data |-> data, size |-> mp_sizeof_value(data),
     op |-> op, rope |-> <<>>, path |-> path]

RECURSIVE BarLocate(_, _, _)
\* the path leads to a point the operation can be applied at
BarLocate(data, path, op) ==
    IF data.t # "MP_ARRAY" THEN FALSE
    ELSE IF Len(path) = 1
    THEN CASE op.meta.name \in {"op_insert", "op_set"} ->
                  path[1] <= Len(data.a)
           [] op.meta.name = "op_delete" ->
                  path[1] < Len(data.a)
                  /\ path[1] + op.arg.del_count <= Len(data.a)
           [] OTHER -> path[1] < Len(data.a)
    ELSE /\ path[1] < Len(data.a)
         /\ BarLocate(data.a[path[1] + 1], Tail(path), op)

RECURSIVE BarPoint(_, _)
\* the field at the point
BarPoint(data, path) ==
    IF path = <<>> THEN data ELSE BarPoint(data.a[path[1] + 1], Tail(path))

\* do_op_bar_<op_type> on an untouched field: the bar is made and the
\* operation is executed at its point
do_op_nop_bar(pop, field, index_base) ==
    IF ~BarLocate(field.data, pop.lexer, pop.op)
    THEN DoRet(-1, pop.op, field, update_err_no_such_field(pop.op, index_base))
    ELSE IF pop.op.meta.name \in {"op_insert", "op_delete"}
    THEN DoRet(0, pop.op, BarField(field.data, pop.op, pop.lexer), NoErr)
    ELSE IF pop.op.meta.name = "op_set"
    THEN Bind([pop.op EXCEPT !.new_field_len = pop.op.arg.set_length], LAMBDA op1 :
         DoRet(0, op1, BarField(field.data, op1, pop.lexer), NoErr))
    ELSE Bind(update_op_do_scalar(pop.op, BarPoint(field.data, pop.lexer),
                                  index_base), LAMBDA r :
         IF r.rc # 0 THEN DoRet(r.rc, r.op, field, r.diag)
         ELSE DoRet(0, r.op, BarField(field.data, r.op, pop.lexer), NoErr))

\* do_op_array_<op_type> with an operation that is not terminal: the
\* operation goes down to the child, an untouched field
do_op_array_path(pop, field, index_base) ==
    Bind(update_op_adjust_field_no(pop.op, Len(field.rope)), LAMBDA adj :
    Bind([pop.op EXCEPT !.field_no = adj.field_no], LAMBDA op1 :
        IF adj.rc # 0
        THEN DoRet(-1, pop.op, field, update_err_no_such_field(pop.op, index_base))
        ELSE IF field.rope[adj.field_no + 1].type # "UPDATE_NOP"
        THEN DoRet(-1, op1, field, update_err_double(op1, index_base))
        ELSE Bind(do_op_nop_bar(PathOp(op1, pop.lexer),
                                field.rope[adj.field_no + 1], index_base), LAMBDA r :
             IF r.rc # 0 THEN DoRet(r.rc, r.op, field, r.diag)
             ELSE DoRet(0, r.op,
                        [field EXCEPT !.rope[adj.field_no + 1] = r.field],
                        NoErr))))

\* do_op_<op_type> with the path of the operation
do_op_path(pop, field, index_base) ==
    IF update_op_is_term(pop) THEN do_op(pop.op, field, index_base)
    ELSE do_op_array_path(pop,
                          IF field.type = "UPDATE_NOP"
                          THEN update_array_create(field) ELSE field,
                          index_base)

RECURSIVE BarEmit(_, _, _)
\* the bytes of a bar: the containers around the point as they are, at the
\* point the new field; an insertion or a deletion writes the header of the
\* parent with its new count
BarEmit(data, path, op) ==
    IF Len(path) > 1
    THEN MpArrayW([data.a EXCEPT ![path[1] + 1] = BarEmit(@, Tail(path), op)],
                  data.w)
    ELSE CASE op.meta.name = "op_insert"
                \/ (op.meta.name = "op_set" /\ path[1] = Len(data.a)) ->
                  mp_encode_array(InsertAt(data.a, path[1], op.arg.set_value))
           [] op.meta.name = "op_delete" ->
                  mp_encode_array(EraseRange(data.a, path[1], op.arg.del_count))
           [] OTHER ->
                  MpArrayW([data.a EXCEPT ![path[1] + 1] = store_f(op, @)],
                           data.w)

\* the mutant of update_bar_store: the old bytes of the field
UpdateBarStoreOldBytes(field) == [n |-> field.size, out |-> field.data]

\* update_bar_store
update_bar_store(field) ==
    Bind(BarEmit(field.data, field.path, field.op), LAMBDA out :
        [n |-> mp_sizeof_value(out), out |-> out])

\* update_bar_sizeof
update_bar_sizeof(field) == update_bar_store(field).n

\* update_field_store with the case UPDATE_BAR
update_field_store_bar(field) ==
    IF field.type = "UPDATE_BAR" THEN update_bar_store(field)
    ELSE update_field_store(field)

\* update_array_store of an array whose children may be bars
update_array_store_bar(field) ==
    Bind([i \in 1..Len(field.rope) |-> update_field_store_bar(field.rope[i])],
         LAMBDA r :
        [n |-> mp_sizeof_array(Len(field.rope))
               + (IF Len(r) = 0 THEN 0 ELSE
                  LET RECURSIVE Sum(_)
                      Sum(i) == IF i > Len(r) THEN 0 ELSE r[i].n + Sum(i + 1)
                  IN Sum(1)),
         out |-> mp_encode_array([i \in 1..Len(r) |-> r[i].out])])

(***************************************************************************)
(* The state of one call.                                                  *)
(***************************************************************************)
VARIABLES
    entry,        \* the function called: box_tuple_update, box_tuple_upsert
                  \* or tuple_update_execute
    gc_used,      \* what the caller holds of the fiber region at the first call
    tuple,        \* the old record, old_data .. old_data + bsize
    expr,         \* the operation list, expr .. expr_end
    index_base,   \* 0 or 1
    dict,         \* the names of the fields, the tuple dictionary
    pc,           \* the position of the call
    ops,          \* the decoded operations
    op_no,        \* the number of operations executed
    root,         \* the update tree
    diag,         \* the last error of the diagnostics area
    new_data,     \* the result of tuple_update_execute, or NULL
    new_size,     \* its size
    region_used,  \* region_used(&fiber()->gc)
    used,         \* the local variable of box_tuple_update
    ret,          \* the tuple returned to the caller, or NULL
    calls,        \* the calls that have ended before this one
    first         \* what the call before this one gave, or NoCall

\* the tuples whose references are counted, and the big reference counters
VARIABLES
    tuples,       \* of each tuple: refs (or ref_index, the same bits), is_bigref
    bigref_list,  \* the array refs, its capacity, vacant_index
    ref_pc        \* "running", or "panicked" after panic()

refsys == <<tuples, bigref_list, ref_pc>>

vars == <<entry, gc_used, tuple, expr, index_base, dict, build, pc, ops, op_no, root,
          diag, new_data, new_size, region_used, used, ret, calls, first,
          tuples, bigref_list, ref_pc>>

inputs == <<entry, gc_used, tuple, expr, index_base, dict, build>>

earlier == <<calls, first>>

\* the outcome of a call: the data and its size, the error, the tuple
Outcome(data, size, err, t) ==
    [data |-> data, size |-> size, diag |-> err, ret |-> t]
NoCall == Outcome(NULL, 0, NoErr, NULL)

\* what op->field_no of a freshly allocated operation may hold
JunkFieldNo == {0, 7}

(***************************************************************************)
(* The inputs of the model.  Only the calls with a splice negate an        *)
(* int32_t: for the other calls all builds agree, and one is taken.        *)
(***************************************************************************)
U(v) == mp_encode_uint(v)
I(v) == mp_encode_int(v)
Str(s) == mp_encode_str(s)
Arr(a) == mp_encode_array(a)
Target(i) == IF i >= 0 THEN U(i) ELSE I(i)
OpExpr(opcode, target, args) == Arr(<<Str(<<opcode>>), target>> \o args)

\* the names used below: "a", "b", "c" and "a.b" in bytes
Name_a == <<97>>
Name_b == <<98>>
Name_c == <<99>>
Name_a_b == <<97, 46, 98>>

RECURSIVE SeqsUpTo(_, _)
\* the sequences over S of length at most n
SeqsUpTo(S, n) ==
    IF n = 0 THEN {<<>>}
    ELSE LET T == SeqsUpTo(S, n - 1)
         IN  T \cup {Append(t, x) : t \in {u \in T : Len(u) = n - 1}, x \in S}

\* records: shortest encodings, a 16-bit array header, a one-byte number
\* in the two-byte format
StructTuples ==
    {Arr(<<U(1), U(2), U(3)>>),
     MpArrayW(<<U(1), U(2), U(3)>>, 3),
     Arr(<<U(1), MpUint(2, 2)>>),
     Arr(<<>>)}

StructTargets == {-1, 0, 1, 2, 3, 4}

StructOps ==
    {OpExpr(CH_SET, Target(i), <<U(v)>>) : i \in StructTargets, v \in {0, 9}}
    \cup {OpExpr(CH_INSERT, Target(i), <<U(0)>>) : i \in StructTargets}
    \cup {OpExpr(CH_DELETE, Target(i), <<U(1)>>) : i \in StructTargets}

\* numbers at the limits of the encodings and of the result range
ArithValues ==
    {U(0), U(1), U(127), U(128), MpUint(1, 9), U(-INT64_MIN - 1),
     U(-INT64_MIN), U(UINT64_MAX),
     I(-1), I(-32), I(-33), I(INT64_MIN), MpInt(5, 2),
     MpFloat(3), MpFloat(2^FltMantBits - 1), MpFloat(-(2^FltMantBits)),
     MpDouble(1), MpDouble(2^FltMantBits + 1), MpDouble(2^DblMantBits - 1),
     MpDecimal(1), Str(Name_a), MpNil}

\* the operations on the second field of a record of two
ArithOps(ib) ==
    {OpExpr(c, U(1 + ib), <<y>>) : c \in {CH_ADD, CH_SUB}, y \in ArithValues}

PathTuple == Arr(<<mp_encode_map(<<Str(Name_b), U(1)>>), U(7)>>)
PathDicts == {<<>>, <<Name_a>>, <<Name_a, Name_a_b>>, <<Name_c, Name_a_b>>}
PathOps ==
    {OpExpr(CH_SET, Str(n), <<U(9)>>) : n \in {Name_a, Name_a_b, Name_c}}

\* one set operation, its target from either end of the record and past
\* both, its value in the shortest encoding or not
SetTargets == {-5, -4, -3, -2, -1, 0, 1, 2, 3, 4}
SetValues == {U(9), MpUint(9, 2), Str(Name_a)}
SetOps == {OpExpr(CH_SET, Target(i), <<v>>) : i \in SetTargets, v \in SetValues}

\* the strings "ab", "hello" and "XYZ" in bytes
Bytes_ab == <<97, 98>>
Bytes_hello == <<104, 101, 108, 108, 111>>
Bytes_XYZ == <<88, 89, 90>>

\* records of one string: the shortest headers, a two-byte string header,
\* a 16-bit array header
SpliceTuples ==
    {Arr(<<Str(<<>>)>>), Arr(<<Str(Bytes_ab)>>), Arr(<<Str(Bytes_hello)>>),
     Arr(<<MpStrW(Bytes_ab, 2)>>), MpArrayW(<<Str(Bytes_ab)>>, 3)}

\* offsets and lengths around the ends of the strings and at the limits of
\* int32_t
SpliceOffsets ==
    {INT32_MIN, INT32_MIN + 1, -7, -6, -3, -1, 0, 1, 2, 3, 6, 7, INT32_MAX}
SpliceCuts == {INT32_MIN, -6, -2, -1, 0, 1, 2, 5, 6, INT32_MAX}
SplicePastes == {<<>>, Bytes_XYZ}

\* the splice operations on the first field
SpliceOps(ib) ==
    {OpExpr(CH_SPLICE, U(ib), <<Target(o), Target(c), Str(p)>>) :
        o \in SpliceOffsets, c \in SpliceCuts, p \in SplicePastes}

\* operation names: the nine opcodes, no byte, an unknown byte, an opcode
\* followed by another byte
OpNames ==
    {<<CH_SET>>, <<CH_INSERT>>, <<CH_DELETE>>, <<CH_ADD>>, <<CH_SUB>>,
     <<CH_AND>>, <<CH_OR>>, <<CH_XOR>>, <<CH_SPLICE>>,
     <<>>, <<120>>, <<CH_SET, 120>>}

\* arguments of every type the read_arg functions tell apart
ArgValues ==
    {U(1), I(-1), U(INT32_MAX + 1), Str(Name_a), MpDouble(1), MpNil}

\* the arrays {name, field id, arguments}, of one to six elements; field
\* ids that are no int32_t and no integer
DecodeArrays ==
    {Arr(<<Str(n)>>) : n \in OpNames}
    \cup {Arr(<<Str(n), U(1)>> \o args) :
             n \in OpNames, args \in SeqsUpTo(ArgValues, 3)}
    \cup {Arr(<<Str(n), U(1), U(1), U(1), Str(Name_a), U(1)>>) : n \in OpNames}
    \cup {Arr(<<Str(<<>>), U(CH_SET), U(9)>>)}
    \cup {Arr(<<Str(n), t, U(9)>>) :
             n \in OpNames, t \in {U(INT32_MAX + 1), MpUint(1, 9), MpDouble(1)}}

\* what is no array, the empty array, arrays whose first element is no
\* string
NotOperations ==
    {U(5), Str(<<CH_SET>>), MpNil, mp_encode_map(<<Str(<<CH_SET>>), U(1)>>),
     Arr(<<>>),
     Arr(<<U(CH_SET), U(1), U(9)>>), Arr(<<MpNil, U(1), U(9)>>),
     Arr(<<Arr(<<Str(<<CH_SET>>)>>), U(1), U(9)>>), Arr(<<U(CH_SET)>>)}

DecodeTuple == Arr(<<U(5), Str(Bytes_ab)>>)

InitSet ==
    /\ tuple \in StructTuples
    /\ \E o \in SetOps : expr = Arr(<<o>>)
    /\ entry = "tuple_update_execute"
    /\ index_base \in {0, 1}
    /\ dict = <<>>
    /\ build = "exact"

InitSplice ==
    /\ tuple \in SpliceTuples
    /\ index_base \in {0, 1}
    /\ \E o \in SpliceOps(index_base) : expr = Arr(<<o>>)
    /\ entry = "tuple_update_execute"
    /\ dict = <<>>
    /\ build \in Builds

InitDecode ==
    /\ tuple = DecodeTuple
    /\ \E o \in DecodeArrays \cup NotOperations : expr = Arr(<<o>>)
    /\ entry = "tuple_update_execute"
    /\ index_base \in {0, 1}
    /\ dict = <<>>
    /\ build = "exact"

\* deletes of 0 to 4 fields and of counts that are no uint32_t, alone or
\* after an insert in front of the record
DeleteTargets == {-4, -3, -2, -1, 0, 1, 2, 3, 4}
DeleteCounts == {0, 1, 2, 3, 4, UINT32_MAX + 1, UINT32_MAX + 2}
DeleteOps ==
    {OpExpr(CH_DELETE, Target(i), <<U(n)>>) :
        i \in DeleteTargets, n \in DeleteCounts}
InsertInFront(ib) == OpExpr(CH_INSERT, U(ib), <<U(0)>>)

InitDelete ==
    /\ tuple \in StructTuples
    /\ index_base \in {0, 1}
    /\ \E o \in DeleteOps :
           expr \in {Arr(<<o>>), Arr(<<InsertInFront(index_base), o>>)}
    /\ entry = "tuple_update_execute"
    /\ dict = <<>>
    /\ build = "exact"

\* field ids at the limits of int32_t, in the encodings of 64 bits, and
\* of the types that are no integer
TargetValues ==
    {I(INT32_MIN), I(INT32_MIN + 1), I(INT32_MIN - 1), I(-3), I(-2), I(-1),
     U(0), U(1), U(2), U(3), U(INT32_MAX), U(INT32_MAX + 1),
     MpUint(1, 9), MpInt(-1, 9), MpDouble(1), MpNil, Arr(<<U(1)>>)}
TargetOps ==
    {OpExpr(c, t, <<U(9)>>) : c \in {CH_SET, CH_INSERT}, t \in TargetValues}

InitTarget ==
    /\ tuple = DecodeTuple
    /\ \E o \in TargetOps : expr = Arr(<<o>>)
    /\ entry = "tuple_update_execute"
    /\ index_base \in {0, 1}
    /\ dict = <<>>
    /\ build \in Builds

\* fields and operands of the bit operations: words with no, some and all
\* bits set, the limits of the encodings, a number in a longer encoding,
\* and fields that are no unsigned integer
BitFields ==
    {U(0), U(5), U(12), U(127), U(128), U(UINT64_MAX), MpUint(5, 9),
     I(-1), MpFloat(3), MpDouble(1), Str(Name_a), MpNil}
BitOperands == {0, 3, 10, 128, 2^(WordBits - 1), UINT64_MAX}
BitOps(ib) ==
    {OpExpr(c, U(ib + 1), <<U(a)>>) :
        c \in {CH_AND, CH_OR, CH_XOR}, a \in BitOperands}

InitBit ==
    /\ \E x \in BitFields : tuple = Arr(<<U(7), x>>)
    /\ index_base \in {0, 1}
    /\ \E o \in BitOps(index_base) : expr = Arr(<<o>>)
    /\ entry = "tuple_update_execute"
    /\ dict = <<>>
    /\ build = "exact"

\* the calls of box_tuple_upsert
InitUpsert ==
    /\ tuple \in StructTuples
    /\ \E l \in SeqsUpTo(StructOps, 1) : expr = Arr(l)
    /\ entry = "box_tuple_upsert"
    /\ index_base = 1
    /\ dict = <<>>
    /\ build = "exact"

\* the sizes of the fiber region when its owner calls
RegionOnEntry(e) ==
    IF e \in {"box_tuple_update", "box_tuple_upsert"} THEN {0, 2} ELSE {0}

InitStruct ==
    /\ tuple \in StructTuples
    /\ \E l \in SeqsUpTo(StructOps, MaxOps) : expr = Arr(l)
    /\ \/ entry = "box_tuple_update" /\ index_base = 1
       \/ entry = "tuple_update_execute" /\ index_base \in {0, 1}
    /\ dict = <<>>
    /\ build = "exact"

InitArith ==
    /\ \E x \in ArithValues : tuple = Arr(<<U(7), x>>)
    /\ index_base \in {0, 1}
    /\ \E o \in ArithOps(index_base) : expr = Arr(<<o>>)
    /\ entry = "tuple_update_execute"
    /\ dict = <<>>
    /\ build = "exact"

InitPath ==
    /\ tuple = PathTuple
    /\ \E o \in PathOps : expr = Arr(<<o>>)
    /\ entry = "tuple_update_execute"
    /\ index_base \in {0, 1}
    /\ dict \in PathDicts
    /\ build = "exact"

(***************************************************************************)
(* Big references.  The counter of a tuple has RefBits bits; past          *)
(* TUPLE_REF_MAX the tuple holds the index of a counter of the bigref      *)
(* list.  refs[i + 1] is the element i of the array: the counter of the    *)
(* tuple that owns the slot i, or the index of the next free slot.         *)
(***************************************************************************)
TUPLE_REF_MAX == 2^RefBits - 1
BIGREF_FACTOR == 2
BIGREF_MAX == TUPLE_REF_MAX + CountSpan
BIGREF_MAX_CAPACITY == 2^RefBits - 1

TupleIds == {1, 2, 3, 4}

\* a tuple whose counter is at TUPLE_REF_MAX, the state tuple_ref leaves
\* before it calls tuple_ref_slow
TupleAtMax == [refs |-> TUPLE_REF_MAX, is_bigref |-> FALSE]

BigrefList(refs, capacity, vacant_index) ==
    [refs |-> refs, capacity |-> capacity, vacant_index |-> vacant_index]

\* bigref_list_create: memset to zero
bigref_list_create == BigrefList(<<>>, 0, 0)

Min(a, b) == IF a < b THEN a ELSE b

\* bigref_list_increase_capacity: the list, and whether it has panicked
\* (realloc returning NULL is the choice of TupleRefSlow)
bigref_list_increase_capacity(list) ==
    Bind(IF list.capacity = 0 THEN BIGREF_MIN_CAPACITY
         ELSE IF list.capacity < BIGREF_MAX_CAPACITY
         THEN Min(list.capacity * BIGREF_FACTOR, BIGREF_MAX_CAPACITY)
         ELSE -1, LAMBDA capacity :
        IF capacity = -1 THEN [panic |-> TRUE, list |-> list]
        ELSE [panic |-> FALSE,
              list |-> BigrefList(
                  [i \in 1..capacity |->
                      IF i <= list.capacity THEN list.refs[i] ELSE i],
                  capacity, list.vacant_index)])

\* the mutant of bigref_list_new_index: vacant_index stays on the slot
\* handed out
BigrefListNewIndexKeepsVacant(list) ==
    Bind(IF list.vacant_index = list.capacity
         THEN bigref_list_increase_capacity(list)
         ELSE [panic |-> FALSE, list |-> list], LAMBDA r :
        [panic |-> r.panic, index |-> r.list.vacant_index, list |-> r.list])

\* bigref_list_new_index: the index handed out and the list after it
bigref_list_new_index(list) ==
    Bind(IF list.vacant_index = list.capacity
         THEN bigref_list_increase_capacity(list)
         ELSE [panic |-> FALSE, list |-> list], LAMBDA r :
        IF r.panic THEN [panic |-> TRUE, index |-> 0, list |-> r.list]
        ELSE [panic |-> FALSE, index |-> r.list.vacant_index,
              list |-> [r.list EXCEPT
                           !.vacant_index = r.list.refs[r.list.vacant_index + 1]]])

\* tuple_ref_slow(tuple)
TupleRefSlow(t) ==
    /\ ref_pc = "running"
    /\ tuples[t].is_bigref \/ tuples[t].refs = TUPLE_REF_MAX
    /\ IF ~tuples[t].is_bigref
       THEN \E nomem \in {bigref_list.vacant_index = bigref_list.capacity, FALSE},
               r \in {bigref_list_new_index(bigref_list)} :
                IF r.panic \/ nomem
                THEN ref_pc' = "panicked" /\ UNCHANGED <<tuples, bigref_list>>
                ELSE /\ tuples' = [tuples EXCEPT ![t] =
                                      [refs |-> r.index, is_bigref |-> TRUE]]
                     /\ bigref_list' = [r.list EXCEPT
                                           !.refs[r.index + 1] = TUPLE_REF_MAX + 1]
                     /\ UNCHANGED ref_pc
       ELSE IF bigref_list.refs[tuples[t].refs + 1] = BIGREF_MAX
       THEN ref_pc' = "panicked" /\ UNCHANGED <<tuples, bigref_list>>
       ELSE /\ bigref_list' = [bigref_list EXCEPT !.refs[tuples[t].refs + 1] = @ + 1]
            /\ UNCHANGED <<tuples, ref_pc>>
    /\ UNCHANGED <<inputs, earlier, pc, ops, op_no, root, diag, new_data,
                   new_size, region_used, used, ret>>

\* tuple_unref_slow(tuple)
TupleUnrefSlow(t) ==
    /\ ref_pc = "running"
    /\ tuples[t].is_bigref
    /\ bigref_list.refs[tuples[t].refs + 1] > TUPLE_REF_MAX
    /\ IF bigref_list.refs[tuples[t].refs + 1] - 1 = TUPLE_REF_MAX
       THEN /\ bigref_list' = [bigref_list EXCEPT
                                  !.refs[tuples[t].refs + 1] = bigref_list.vacant_index,
                                  !.vacant_index = tuples[t].refs]
            /\ tuples' = [tuples EXCEPT ![t] = TupleAtMax]
       ELSE /\ bigref_list' = [bigref_list EXCEPT !.refs[tuples[t].refs + 1] = @ - 1]
            /\ UNCHANGED tuples
    /\ UNCHANGED <<inputs, earlier, pc, ops, op_no, root, diag, new_data,
                   new_size, region_used, used, ret>>
    /\ UNCHANGED ref_pc

Init ==
    /\ \/ InitStruct \/ InitArith \/ InitPath
       \/ InitSet \/ InitSplice \/ InitDecode
       \/ InitDelete \/ InitTarget \/ InitBit \/ InitUpsert
    /\ gc_used \in RegionOnEntry(entry)
    /\ pc = "idle"
    /\ ops = <<>>
    /\ op_no = 0
    /\ root = NopField(tuple)
    /\ diag = NoErr
    /\ new_data = NULL
    /\ new_size = 0
    /\ region_used = gc_used
    /\ used = 0
    /\ ret = NULL
    /\ calls = 0
    /\ first = NoCall
    /\ tuples = [t \in TupleIds |-> TupleAtMax]
    /\ bigref_list = bigref_list_create
    /\ ref_pc = "running"

(***************************************************************************)
(* The steps of the call.                                                  *)
(***************************************************************************)
\* box_tuple_update, up to the call of tuple_update_execute
BoxTupleUpdate ==
    /\ pc = "idle"
    /\ entry = "box_tuple_update"
    /\ used' = region_used
    /\ pc' = "read_ops"
    /\ UNCHANGED <<inputs, earlier, refsys, ops, op_no, root, diag, new_data, new_size,
                   region_used, ret>>

\* tuple_update_execute called by the engine itself
TupleUpdateExecute ==
    /\ pc = "idle"
    /\ entry = "tuple_update_execute"
    /\ pc' = "read_ops"
    /\ UNCHANGED <<inputs, earlier, refsys, ops, op_no, root, diag, new_data, new_size,
                   region_used, used, ret>>

RECURSIVE DecodeAll(_, _, _, _, _)
\* the loop of update_read_ops over the operations i .. of the list
DecodeAll(list, i, ib, d, junk) ==
    IF i > Len(list) THEN [rc |-> 0, ops |-> <<>>, diag |-> NoErr]
    ELSE Bind(update_op_decode(list[i], ib, d, junk), LAMBDA r :
         IF r.rc # 0 THEN [rc |-> -1, ops |-> <<>>, diag |-> r.diag]
         ELSE Bind(DecodeAll(list, i + 1, ib, d, junk), LAMBDA t :
              IF t.rc # 0 THEN t
              ELSE [rc |-> 0, ops |-> <<r.op>> \o t.ops, diag |-> NoErr]))

\* update_read_ops: decode every operation of the list
UpdateReadOps ==
    /\ pc = "read_ops"
    /\ IF mp_typeof(expr) # "MP_ARRAY"
       THEN /\ diag' = Err("ER_ILLEGAL_PARAMS", 0, 0, <<>>,
                           "update operations must be an array {{op,..}, {op,..}}")
            /\ pc' = "executed"
            /\ UNCHANGED <<ops, region_used>>
       ELSE \E junk \in JunkFieldNo :
            \E r \in {DecodeAll(expr.a, 1, index_base, dict, junk)} :
                /\ region_used' = region_used + Len(expr.a)
                /\ IF r.rc # 0
                   THEN diag' = r.diag /\ pc' = "executed" /\ UNCHANGED ops
                   ELSE ops' = r.ops /\ pc' = "do_ops" /\ UNCHANGED diag
    /\ UNCHANGED <<inputs, earlier, refsys, op_no, root, new_data, new_size, used, ret>>

\* update_do_ops: one turn of the loop, op->meta->do_f(op, &update->root)
UpdateDoOp ==
    /\ pc = "do_ops"
    /\ op_no < Len(ops)
    /\ \E r \in {do_op(ops[op_no + 1], root, index_base)} :
           IF r.rc = -2
           THEN \* an assertion has failed: abort()
                /\ pc' = "aborted"
                /\ UNCHANGED <<ops, op_no, root, diag>>
           ELSE IF r.rc # 0
           THEN /\ diag' = r.diag
                /\ pc' = "executed"
                /\ UNCHANGED <<ops, op_no, root>>
           ELSE /\ ops' = [ops EXCEPT ![op_no + 1] = r.op]
                /\ op_no' = op_no + 1
                /\ root' = r.field
                /\ UNCHANGED <<diag, pc>>
    /\ region_used' = region_used + 1
    /\ UNCHANGED <<inputs, earlier, refsys, new_data, new_size, used, ret>>

\* update_finish: the size of the new record, the buffer, the store
UpdateFinish ==
    /\ pc = "do_ops"
    /\ op_no = Len(ops)
    /\ IF SpliceFault(root)
       THEN \* memcpy with a length below zero: the process faults
            /\ pc' = "crashed"
            /\ UNCHANGED <<new_size, new_data>>
       ELSE /\ new_size' = update_field_sizeof(root)
            /\ new_data' = update_field_store(root).out
            /\ pc' = "executed"
    /\ region_used' = region_used + 1
    /\ UNCHANGED <<inputs, earlier, refsys, ops, op_no, root, diag, used, ret>>

\* tuple_update_execute returns to the engine
TupleUpdateReturn ==
    /\ pc = "executed"
    /\ entry = "tuple_update_execute"
    /\ ret' = new_data
    /\ pc' = "done"
    /\ UNCHANGED <<inputs, earlier, refsys, ops, op_no, root, diag, new_data, new_size,
                   region_used, used>>

\* the mutant of the error path of box_tuple_update: the old tuple is
\* returned in place of NULL
BoxTupleUpdateErrorReturnsOld ==
    /\ pc = "executed"
    /\ entry = "box_tuple_update"
    /\ new_data = NULL
    /\ region_used' = used
    /\ ret' = tuple
    /\ pc' = "done"
    /\ UNCHANGED <<inputs, earlier, refsys, ops, op_no, root, diag, new_data, new_size, used>>

\* box_tuple_update after tuple_update_execute failed
BoxTupleUpdateError ==
    /\ pc = "executed"
    /\ entry = "box_tuple_update"
    /\ new_data = NULL
    /\ region_used' = used
    /\ ret' = NULL
    /\ pc' = "done"
    /\ UNCHANGED <<inputs, earlier, refsys, ops, op_no, root, diag, new_data, new_size, used>>

\* the mutant of box_tuple_update after tuple_update_execute succeeded:
\* the region is not truncated
BoxTupleUpdateNewKeepsRegion ==
    /\ pc = "executed"
    /\ entry = "box_tuple_update"
    /\ new_data # NULL
    /\ \/ ret' = new_data /\ UNCHANGED diag
       \/ ret' = NULL /\ diag' = Err("ER_MEMORY_ISSUE", 0, 0, <<>>, "tuple_new")
    /\ pc' = "done"
    /\ UNCHANGED <<inputs, earlier, refsys, ops, op_no, root, new_data, new_size,
                   region_used, used>>

\* box_tuple_update after tuple_update_execute succeeded: tuple_new, which
\* may fail for want of memory, region_truncate, tuple_bless
BoxTupleUpdateNew ==
    /\ pc = "executed"
    /\ entry = "box_tuple_update"
    /\ new_data # NULL
    /\ \/ ret' = new_data /\ UNCHANGED diag
       \/ ret' = NULL /\ diag' = Err("ER_MEMORY_ISSUE", 0, 0, <<>>, "tuple_new")
    /\ region_used' = used
    /\ pc' = "done"
    /\ UNCHANGED <<inputs, earlier, refsys, ops, op_no, root, new_data, new_size, used>>

\* box_tuple_upsert, up to the call of tuple_upsert_execute
BoxTupleUpsert ==
    /\ pc = "idle"
    /\ entry = "box_tuple_upsert"
    /\ used' = region_used
    /\ pc' = "upsert"
    /\ UNCHANGED <<inputs, earlier, refsys, ops, op_no, root, diag, new_data, new_size,
                   region_used, ret>>

\* tuple_upsert_execute: it allocates on the region it is given and returns
\* NULL with an error set, or a record (the old one, or the updated one)
TupleUpsertExecute ==
    /\ pc = "upsert"
    /\ \E n \in {0, Len(expr.a) + 2} : region_used' = region_used + n
    /\ \/ /\ new_data' = NULL
          /\ new_size' = 0
          /\ diag' = Err("ER_ILLEGAL_PARAMS", 0, 0, <<>>, "tuple_upsert_execute")
       \/ /\ \E r \in {update_field_store(NopField(tuple))} :
                 new_data' = r.out /\ new_size' = r.n
          /\ UNCHANGED diag
    /\ pc' = "upsert_executed"
    /\ UNCHANGED <<inputs, earlier, refsys, ops, op_no, root, used, ret>>

\* box_tuple_upsert after tuple_upsert_execute failed
BoxTupleUpsertError ==
    /\ pc = "upsert_executed"
    /\ new_data = NULL
    /\ region_used' = used
    /\ ret' = NULL
    /\ pc' = "upsert_done"
    /\ UNCHANGED <<inputs, earlier, refsys, ops, op_no, root, diag, new_data, new_size, used>>

\* box_tuple_upsert after tuple_upsert_execute succeeded: tuple_new,
\* region_truncate, tuple_bless
BoxTupleUpsertNew ==
    /\ pc = "upsert_executed"
    /\ new_data # NULL
    /\ \/ ret' = new_data /\ UNCHANGED diag
       \/ ret' = NULL /\ diag' = Err("ER_MEMORY_ISSUE", 0, 0, <<>>, "tuple_new")
    /\ region_used' = used
    /\ pc' = "upsert_done"
    /\ UNCHANGED <<inputs, earlier, refsys, ops, op_no, root, new_data, new_size, used>>

\* the caller calls again with the same arguments: what the engine left
\* behind (the diagnostics area, the region of a caller that does not
\* truncate it) is there at the second call
SecondCall ==
    /\ pc = "done"
    /\ calls = 0
    /\ calls' = 1
    /\ first' = Outcome(new_data, new_size, diag, ret)
    /\ pc' = "idle"
    /\ ops' = <<>>
    /\ op_no' = 0
    /\ root' = NopField(tuple)
    /\ new_data' = NULL
    /\ new_size' = 0
    /\ ret' = NULL
    /\ UNCHANGED <<inputs, refsys, diag, region_used, used>>

Next ==
    \/ SecondCall
    \/ BoxTupleUpdate
    \/ TupleUpdateExecute
    \/ UpdateReadOps
    \/ UpdateDoOp
    \/ UpdateFinish
    \/ TupleUpdateReturn
    \/ BoxTupleUpdateError
    \/ BoxTupleUpdateNew
    \/ BoxTupleUpsert
    \/ TupleUpsertExecute
    \/ BoxTupleUpsertError
    \/ BoxTupleUpsertNew

Spec == Init /\ [][Next]_vars

\* the references of the tuples alone: no update is called
InitRef ==
    /\ tuple = DecodeTuple
    /\ expr = Arr(<<>>)
    /\ entry = "tuple_ref"
    /\ gc_used = 0
    /\ index_base = 1
    /\ dict = <<>>
    /\ build = "exact"
    /\ pc = "idle"
    /\ ops = <<>>
    /\ op_no = 0
    /\ root = NopField(tuple)
    /\ diag = NoErr
    /\ new_data = NULL
    /\ new_size = 0
    /\ region_used = 0
    /\ used = 0
    /\ ret = NULL
    /\ calls = 0
    /\ first = NoCall
    /\ tuples = [t \in TupleIds |-> TupleAtMax]
    /\ bigref_list = bigref_list_create
    /\ ref_pc = "running"

NextRef ==
    \/ \E t \in TupleIds : TupleRefSlow(t)
    \/ \E t \in TupleIds : TupleUnrefSlow(t)

SpecRef == InitRef /\ [][NextRef]_vars

(***************************************************************************)
(* Updates by a path: the records, the paths and the operations, and the   *)
(* steps of tuple_update_execute with operations that have a lexer.        *)
(***************************************************************************)
\* nested arrays, each with the shortest header or with the header of 3 bytes
BarTuples ==
    {MpArrayW(<<U(1), MpArrayW(<<U(5), MpArrayW(<<U(8), U(12)>>, w3)>>, w2), U(3)>>, w1) :
        w1 \in {1, 3}, w2 \in {1, 3}, w3 \in {1, 3}}

BarPaths ==
    {<<2, 1>>, <<2, 2>>, <<2, 3>>, <<2, 2, 1>>, <<2, 2, 2>>, <<2, 2, 3>>,
     <<1, 0>>, <<1, 1>>, <<1, 2>>, <<1, 1, 0>>, <<1, 1, 1>>, <<4, 1>>}

RECURSIVE PathStr(_)
\* the path [n][m].. of one digit per token
PathStr(toks) ==
    IF toks = <<>> THEN <<>>
    ELSE <<JSON_LBRACKET, JSON_ZERO + toks[1], JSON_RBRACKET>> \o PathStr(Tail(toks))

BarOps ==
    {OpExpr(c, Str(PathStr(p)), <<U(1)>>) :
        c \in {CH_SET, CH_INSERT, CH_DELETE, CH_ADD, CH_OR}, p \in BarPaths}

\* operations on the first and the third field of the record
PlainOps(ib) ==
    {OpExpr(CH_SET, U(ib), <<U(7)>>), OpExpr(CH_DELETE, U(ib + 2), <<U(1)>>)}

InitBar ==
    /\ tuple \in BarTuples
    /\ index_base \in {0, 1}
    /\ \E o \in BarOps :
          \/ expr = Arr(<<o>>)
          \/ \E q \in PlainOps(index_base) :
                expr \in {Arr(<<q, o>>), Arr(<<o, q>>)}
    /\ entry = "tuple_update_execute"
    /\ gc_used = 0
    /\ dict = <<>>
    /\ build = "exact"
    /\ pc = "idle"
    /\ ops = <<>>
    /\ op_no = 0
    /\ root = NopField(tuple)
    /\ diag = NoErr
    /\ new_data = NULL
    /\ new_size = 0
    /\ region_used = 0
    /\ used = 0
    /\ ret = NULL
    /\ calls = 0
    /\ first = NoCall
    /\ tuples = [t \in TupleIds |-> TupleAtMax]
    /\ bigref_list = bigref_list_create
    /\ ref_pc = "running"

RECURSIVE DecodeAllPath(_, _, _, _, _)
\* the loop of update_read_ops, with update_op_decode_path
DecodeAllPath(list, i, ib, d, junk) ==
    IF i > Len(list) THEN [rc |-> 0, ops |-> <<>>, diag |-> NoErr]
    ELSE Bind(update_op_decode_path(list[i], ib, d, junk), LAMBDA r :
         IF r.rc # 0 THEN [rc |-> -1, ops |-> <<>>, diag |-> r.diag]
         ELSE Bind(DecodeAllPath(list, i + 1, ib, d, junk), LAMBDA t :
              IF t.rc # 0 THEN t
              ELSE [rc |-> 0, ops |-> <<r.pop>> \o t.ops, diag |-> NoErr]))

\* update_read_ops
BarReadOps ==
    /\ pc = "idle"
    /\ \E r \in {DecodeAllPath(expr.a, 1, index_base, dict, 0)} :
           IF r.rc # 0
           THEN diag' = r.diag /\ pc' = "executed" /\ UNCHANGED ops
           ELSE ops' = r.ops /\ pc' = "do_ops" /\ UNCHANGED diag
    /\ region_used' = region_used + Len(expr.a)
    /\ UNCHANGED <<inputs, earlier, refsys, op_no, root, new_data, new_size, used, ret>>

\* update_do_ops: one turn of the loop
BarDoOp ==
    /\ pc = "do_ops"
    /\ op_no < Len(ops)
    /\ \E r \in {do_op_path(ops[op_no + 1], root, index_base)} :
           IF r.rc # 0
           THEN /\ diag' = r.diag
                /\ pc' = "executed"
                /\ UNCHANGED <<ops, op_no, root>>
           ELSE /\ ops' = [ops EXCEPT ![op_no + 1].op = r.op]
                /\ op_no' = op_no + 1
                /\ root' = r.field
                /\ UNCHANGED <<diag, pc>>
    /\ region_used' = region_used + 1
    /\ UNCHANGED <<inputs, earlier, refsys, new_data, new_size, used, ret>>

\* update_finish
BarFinish ==
    /\ pc = "do_ops"
    /\ op_no = Len(ops)
    /\ \E r \in {update_array_store_bar(root)} :
           new_size' = r.n /\ new_data' = r.out
    /\ pc' = "executed"
    /\ region_used' = region_used + 1
    /\ UNCHANGED <<inputs, earlier, refsys, ops, op_no, root, diag, used, ret>>

NextBar ==
    \/ BarReadOps
    \/ BarDoOp
    \/ BarFinish

SpecBar == InitBar /\ [][NextBar]_vars

(***************************************************************************)
(* The properties of the update, stated over the calls that have ended.    *)
(***************************************************************************)
\* tuple_update_execute has returned
Returned == pc \in {"executed", "done"}

\* the parts of the encoded operation o
OpCode(o) == o.a[1].s[1]
OpTarget(o) == o.a[2]
OpArg(o) == o.a[3]

\* o is an array of three elements whose first is a string of one byte
Plain(o) ==
    /\ mp_typeof(o) = "MP_ARRAY" /\ Len(o.a) = 3
    /\ mp_typeof(o.a[1]) = "MP_STR" /\ Len(o.a[1].s) = 1

\* the call is of the structural family: integer targets, set, insert, delete
StructCall == \A k \in 1..Len(expr.a) : Plain(expr.a[k])
                  /\ mp_typeof(OpTarget(expr.a[k])) # "MP_STR"
                  /\ OpCode(expr.a[k]) \in {CH_SET, CH_INSERT, CH_DELETE}
                  /\ (OpCode(expr.a[k]) = CH_DELETE
                        => OpArg(expr.a[k]).v <= UINT32_MAX)

\* the sequential meaning of one operation on a plain sequence of fields:
\* the target is resolved against the sequence as it is now
RefPos(t, n, ib) == IF t >= 0 THEN t - ib ELSE t + n

RefApply(seq, o, ib) ==
    CASE OpCode(o) = CH_INSERT ->
            InsertAt(seq, RefPos(OpTarget(o).v, Len(seq) + 1, ib), OpArg(o))
      [] OpCode(o) = CH_DELETE ->
            EraseRange(seq, RefPos(OpTarget(o).v, Len(seq), ib), OpArg(o).v)
      [] OpCode(o) = CH_SET ->
            IF OpTarget(o).v - ib = Len(seq) THEN Append(seq, OpArg(o))
            ELSE [seq EXCEPT ![RefPos(OpTarget(o).v, Len(seq), ib) + 1] = OpArg(o)]

RECURSIVE RefFold(_, _, _, _)
RefFold(seq, list, k, ib) ==
    IF k > Len(list) THEN seq
    ELSE RefFold(RefApply(seq, list[k], ib), list, k + 1, ib)

\* the record [1, 2, 3] and the list [insert 0 at 1; delete 1 at 4]
R123 == Arr(<<U(1), U(2), U(3)>>)
InsertThenDelete4 ==
    Arr(<<OpExpr(CH_INSERT, U(1), <<U(0)>>), OpExpr(CH_DELETE, U(4), <<U(1)>>)>>)

\* C1: the operations of a call are applied in the order of the list, each
\* to the record as the operations before it left it: the fields of a
\* result are those of the operations folded in order over the fields of
\* the record, and [1, 2, 3] under [insert 0 at 1; delete 1 at 4] with
\* index base 1 gives [0, 1, 2].
C1_InOrder ==
    /\ (Returned /\ StructCall /\ new_data # NULL)
           => new_data.a = RefFold(tuple.a, expr.a, 1, index_base)
    /\ (Returned /\ tuple = R123 /\ expr = InsertThenDelete4 /\ index_base = 1)
           => new_data = Arr(<<U(0), U(1), U(2)>>)

C1_Witness ==
    /\ pc = "executed" /\ tuple = R123 /\ expr = InsertThenDelete4
    /\ index_base = 1 /\ op_no = 2
    /\ new_data = Arr(<<U(0), U(1), U(2)>>)

\* the target t addresses a field of a record of n fields
FieldExists(t, n, ib) == (t >= ib /\ t - ib < n) \/ (t < 0 /\ -t <= n)

\* the list is [set i a; set i b] for a field i of the record
TwoSetsOfOneField ==
    /\ Len(expr.a) = 2
    /\ Plain(expr.a[1]) /\ Plain(expr.a[2])
    /\ OpCode(expr.a[1]) = CH_SET /\ OpCode(expr.a[2]) = CH_SET
    /\ mp_typeof(OpTarget(expr.a[1])) # "MP_STR"
    /\ OpTarget(expr.a[1]) = OpTarget(expr.a[2])
    /\ FieldExists(OpTarget(expr.a[1]).v, Len(tuple.a), index_base)

UpdateFailed == diag.code \notin {"OK", "ER_MEMORY_ISSUE"}

\* C3: when an operation of the call raises an error, at any place of the
\* list, the call gives no result, neither a record nor a part of one, and
\* the record given to the call is never changed.
C3_AllOrNothing ==
    /\ [](UpdateFailed => (new_data = NULL /\ new_size = 0 /\ ret = NULL))
    /\ [](Returned /\ new_data = NULL => UpdateFailed)
    /\ [][tuple' = tuple /\ expr' = expr]_vars

C3_Witness ==
    /\ pc = "done" /\ entry = "box_tuple_update"
    /\ UpdateFailed /\ op_no = 1 /\ Len(ops) = 2
    /\ root.type = "UPDATE_ARRAY" /\ ret = NULL

\* C4: the update of a record with no operations returns the same bytes.
C4_Identity ==
    (Returned /\ expr = Arr(<<>>))
        => (new_data = tuple /\ new_size = mp_sizeof_value(tuple)
            /\ ~UpdateFailed)

C4_Witness ==
    /\ pc = "done" /\ expr = Arr(<<>>) /\ ret = tuple
    /\ tuple = MpArrayW(<<U(1), U(2), U(3)>>, 3)

\* the position i is within the record of n fields, the end included
InBounds(i, n, ib) == i >= ib /\ i - ib <= n

\* the list is [insert v at i; delete 1 at i] for a position of the record
InsertThenDeleteSame ==
    /\ Len(expr.a) = 2
    /\ Plain(expr.a[1]) /\ Plain(expr.a[2])
    /\ OpCode(expr.a[1]) = CH_INSERT /\ OpCode(expr.a[2]) = CH_DELETE
    /\ mp_typeof(OpTarget(expr.a[1])) # "MP_STR"
    /\ OpTarget(expr.a[1]) = OpTarget(expr.a[2])
    /\ OpArg(expr.a[2]) = U(1)
    /\ InBounds(OpTarget(expr.a[1]).v, Len(tuple.a), index_base)

\* the array header of the record is the shortest for its count of fields
ShortestHeader(x) == x.w = mp_sizeof_array(Len(x.a))

\* C5 as stated: an insert at a position of the record followed by the
\* delete of one field at the same position returns the bytes of the record.
C5_InsertDeleteAnyRecord ==
    (Returned /\ InsertThenDeleteSame) => new_data = tuple

\* C5: for a record whose array header is the shortest encoding of its
\* count of fields, an insert at a position of the record followed by the
\* delete of one field at the same position returns the bytes of the record;
\* under any header the fields are those of the record.
C5_InsertDeleteInverse ==
    (Returned /\ InsertThenDeleteSame)
        => /\ new_data # NULL
           /\ new_data.a = tuple.a
           /\ ShortestHeader(tuple) => new_data = tuple

C5_Witness ==
    /\ pc = "executed" /\ InsertThenDeleteSame /\ ShortestHeader(tuple)
    /\ Len(tuple.a) = 2 /\ tuple.a[2].w = 2
    /\ OpTarget(expr.a[1]) = U(2) /\ index_base = 1
    /\ new_data = tuple

\* the call is one arithmetic operation on the second field of two
ArithCall ==
    /\ Returned /\ Len(expr.a) = 1 /\ Len(tuple.a) = 2
    /\ Plain(expr.a[1])
    /\ OpCode(expr.a[1]) \in {CH_ADD, CH_SUB}
    /\ OpTarget(expr.a[1]) = U(index_base + 1)

IsInt(x) == mp_typeof(x) \in {"MP_UINT", "MP_INT"}
IsNumber(x) == mp_typeof(x) \in {"MP_UINT", "MP_INT", "MP_FLOAT", "MP_DOUBLE"}
IntCall == ArithCall /\ IsInt(tuple.a[2]) /\ IsInt(OpArg(expr.a[1]))

\* the sum or the difference of the field and the argument, in the integers
Exact ==
    IF OpCode(expr.a[1]) = CH_ADD THEN tuple.a[2].v + OpArg(expr.a[1]).v
    ELSE tuple.a[2].v - OpArg(expr.a[1]).v

C7_SignOfResult ==
    (IntCall /\ new_data # NULL)
        => /\ Exact >= 0 => new_data.a[2] = mp_encode_uint(Exact)
           /\ Exact < 0 => new_data.a[2] = mp_encode_int(Exact)
           /\ ops[1].new_field_len = new_data.a[2].w
           /\ new_size = mp_sizeof_value(new_data)

C7_Witness ==
    /\ pc = "executed" /\ IntCall
    /\ tuple.a[2] = MpInt(5, 2) /\ OpArg(expr.a[1]) = I(-1)
    /\ OpCode(expr.a[1]) = CH_ADD
    /\ new_data # NULL /\ new_data.a[2] = MpUint(4, 1)

\* the operand as a double: cast_arith_arg_to_double on the value read
AsDouble(x) == IF IsInt(x) THEN ToDouble(x.v) ELSE x.v

\* the result of the floating branch in double precision
ExactDouble ==
    IF OpCode(expr.a[1]) = CH_ADD
    THEN ToDouble(AsDouble(tuple.a[2]) + AsDouble(OpArg(expr.a[1])))
    ELSE ToDouble(AsDouble(tuple.a[2]) - AsDouble(OpArg(expr.a[1])))

NumberCall == ArithCall /\ IsNumber(tuple.a[2]) /\ IsNumber(OpArg(expr.a[1]))
AnyOperandIs(t) ==
    mp_typeof(tuple.a[2]) = t \/ mp_typeof(OpArg(expr.a[1])) = t

\* C8: with a double among the operands the result is a double; with a
\* float and no double it is computed in double precision and stored as a
\* float; with integers only it is an integer.
C8_Promotion ==
    NumberCall =>
        /\ AnyOperandIs("MP_DOUBLE")
               => new_data # NULL /\ new_data.a[2] = MpDouble(ExactDouble)
        /\ (AnyOperandIs("MP_FLOAT") /\ ~AnyOperandIs("MP_DOUBLE"))
               => new_data # NULL /\ new_data.a[2] = MpFloat(ToFloat(ExactDouble))
        /\ (~AnyOperandIs("MP_FLOAT") /\ ~AnyOperandIs("MP_DOUBLE")
            /\ new_data # NULL) => IsInt(new_data.a[2])

C8_Witness ==
    /\ pc = "executed" /\ NumberCall
    /\ tuple.a[2] = MpFloat(3) /\ OpArg(expr.a[1]) = MpDouble(1)
    /\ OpCode(expr.a[1]) = CH_SUB
    /\ new_data # NULL /\ new_data.a[2] = MpDouble(2)

IsDecimal(x) == mp_typeof(x) = "MP_EXT"

\* C9 as stated: a decimal is a valid operand of an addition or of a
\* subtraction, as the field and as the argument: the operation is never
\* rejected for the type of its operands.
C9_DecimalAccepted ==
    (ArithCall
     /\ (IsDecimal(tuple.a[2]) \/ IsNumber(tuple.a[2]))
     /\ (IsDecimal(OpArg(expr.a[1])) \/ IsNumber(OpArg(expr.a[1])))
     /\ (IsDecimal(tuple.a[2]) \/ IsDecimal(OpArg(expr.a[1]))))
        => diag.code # "ER_UPDATE_ARG_TYPE"

\* the call is one set whose target is the name "a.b"
PathCall ==
    /\ Returned /\ Len(expr.a) = 1
    /\ Plain(expr.a[1])
    /\ OpCode(expr.a[1]) = CH_SET
    /\ OpTarget(expr.a[1]) = Str(Name_a_b)

InDict(name) == \E k \in 1..Len(dict) : dict[k] = name

\* C10 as stated: the target "a.b" addresses the field named "a.b" when the
\* dictionary has the name, and otherwise, when the dictionary has "a", it
\* is a path into the field named "a": it is not rejected as an unknown
\* name.
C10_PathOrName ==
    PathCall =>
        /\ InDict(Name_a_b) => new_data # NULL
        /\ (~InDict(Name_a_b) /\ InDict(Name_a))
               => diag.code # "ER_NO_SUCH_FIELD_NAME"

\* the call is one set whose target -k counts from the end, an int32_t in
\* an encoding that mp_read_i32 takes
SetFromEnd ==
    /\ Returned /\ Len(expr.a) = 1 /\ Plain(expr.a[1])
    /\ OpCode(expr.a[1]) = CH_SET
    /\ mp_typeof(OpTarget(expr.a[1])) = "MP_INT"
    /\ OpTarget(expr.a[1]).v < 0
    /\ OpTarget(expr.a[1]).v >= INT32_MIN /\ OpTarget(expr.a[1]).w # 9

\* C11: a set whose target is -k, on a record of n fields, replaces the
\* field n - k (from zero) and leaves the others when 1 <= k <= n, and
\* fails with the no such field error when k > n; [1, 2, 3] under
\* [set -1 to 9] gives [1, 2, 9].
C11_FromEnd ==
    /\ SetFromEnd =>
          IF -OpTarget(expr.a[1]).v <= Len(tuple.a)
          THEN /\ new_data # NULL
               /\ new_data.a =
                      [tuple.a EXCEPT ![Len(tuple.a) + OpTarget(expr.a[1]).v + 1]
                                          = OpArg(expr.a[1])]
          ELSE /\ new_data = NULL
               /\ diag.code = "ER_NO_SUCH_FIELD_NO"
    /\ (SetFromEnd /\ tuple = R123 /\ expr = Arr(<<OpExpr(CH_SET, I(-1), <<U(9)>>)>>))
          => new_data = Arr(<<U(1), U(2), U(9)>>)

C11_Witness ==
    /\ pc = "executed" /\ SetFromEnd /\ tuple = R123
    /\ expr = Arr(<<OpExpr(CH_SET, I(-1), <<U(9)>>)>>)
    /\ new_data = Arr(<<U(1), U(2), U(9)>>)

\* the call has ended, by a return or by the end of the process
Ended == pc \in {"executed", "done", "aborted", "crashed"}

\* the call is one splice of the first field, a string, with arguments of
\* the right types
SpliceCall ==
    /\ Len(expr.a) = 1 /\ Len(tuple.a) = 1
    /\ mp_typeof(expr.a[1]) = "MP_ARRAY" /\ Len(expr.a[1].a) = 5
    /\ expr.a[1].a[1] = Str(<<CH_SPLICE>>)
    /\ expr.a[1].a[2] = U(index_base)
    /\ mp_typeof(tuple.a[1]) = "MP_STR"

\* the arguments of the splice and the length of the string
ArgOffset == expr.a[1].a[3].v
ArgCut == expr.a[1].a[4].v
ArgPaste == expr.a[1].a[5].s
OldStr == tuple.a[1].s

\* the normalisation of the offset, in the integers: below zero it counts
\* from the end, otherwise from the index base, and past the end it is
\* the end
RefOffset(offset, L, b) ==
    IF offset < 0 THEN offset + L + 1
    ELSE IF offset - b > L THEN L
    ELSE offset - b

\* the normalisation of the cut length, in the integers, for a normalised
\* offset
RefCut(cut, off, L) ==
    IF cut < 0 THEN (IF -cut > L - off THEN 0 ELSE cut + (L - off))
    ELSE IF cut > L - off THEN L - off
    ELSE cut

\* what C12 says of a splice that has ended
SpliceAsNormalised ==
    IF RefOffset(ArgOffset, Len(OldStr), index_base) < 0
    THEN /\ pc # "aborted" /\ pc # "crashed"
         /\ new_data = NULL
         /\ diag.code = "ER_SPLICE" /\ diag.msg = "offset is out of bound"
    ELSE /\ op_no = 1
         /\ ops[1].arg.offset = RefOffset(ArgOffset, Len(OldStr), index_base)
         /\ ops[1].arg.cut_length =
                RefCut(ArgCut, ops[1].arg.offset, Len(OldStr))

\* C12 as stated: for every offset and cut length the splice is rejected
\* with the offset out of bound error exactly when the offset, normalised
\* in the integers, is below zero, and otherwise the operation holds the
\* offset and the cut length normalised in the integers.
C12_SpliceNormalised == (Ended /\ SpliceCall) => SpliceAsNormalised

\* the normalisation agrees with the integers away from INT32_MIN, and at
\* INT32_MIN in the build that decides the comparisons in the integers
SpliceNormalisedAwayFromMin ==
    (Ended /\ SpliceCall
     /\ (build = "exact" \/ (ArgOffset > INT32_MIN /\ ArgCut > INT32_MIN)))
        => SpliceAsNormalised

\* the string of a splice in the integers: the head, the paste, the tail
RefSplice(str, offset, cut, paste) ==
    SubSeq(str, 1, offset) \o paste \o SubSeq(str, offset + cut + 1, Len(str))

\* the splice of "hello" at 2, cut 2, paste "XYZ"
SpliceHello ==
    /\ tuple = Arr(<<Str(Bytes_hello)>>) /\ index_base = 1
    /\ expr = Arr(<<OpExpr(CH_SPLICE, U(1), <<U(2), U(2), Str(Bytes_XYZ)>>)>>)

\* C13: a splice that succeeds stores the first offset bytes of the old
\* string, the paste, and the old bytes from offset + cut_length to the
\* end, offset and cut_length normalised; the length is offset + the
\* length of the paste + (L - offset - cut_length), in the shortest string
\* header for it, and is the size computed; "hello" spliced at 2, cut 2,
\* paste "XYZ", index base 1, is "hXYZlo".
C13_SpliceResult ==
    /\ (Returned /\ SpliceCall /\ new_data # NULL) =>
          \E off \in {RefOffset(ArgOffset, Len(OldStr), index_base)} :
          \E cut \in {RefCut(ArgCut, off, Len(OldStr))} :
              /\ new_data.a[1].t = "MP_STR"
              /\ new_data.a[1].s = RefSplice(OldStr, off, cut, ArgPaste)
              /\ Len(new_data.a[1].s)
                     = off + Len(ArgPaste) + (Len(OldStr) - off - cut)
              /\ new_data.a[1].w = mp_sizeof_strl(Len(new_data.a[1].s))
              /\ ops[1].new_field_len = mp_sizeof_value(new_data.a[1])
              /\ new_size = mp_sizeof_value(new_data)
    /\ (Returned /\ SpliceHello)
          => new_data = Arr(<<Str(<<104, 88, 89, 90, 108, 111>>)>>)

C13_Witness ==
    /\ pc = "executed" /\ SpliceCall /\ SpliceHello
    /\ new_data = Arr(<<Str(<<104, 88, 89, 90, 108, 111>>)>>)

\* the splice cuts nothing and pastes nothing, at an offset that is not
\* rejected
EmptySplice ==
    /\ Returned /\ SpliceCall
    /\ ArgCut = 0 /\ ArgPaste = <<>>
    /\ RefOffset(ArgOffset, Len(OldStr), index_base) >= 0

\* the string header of x is the shortest for its length
ShortestStr(x) == x.w = mp_sizeof_strl(Len(x.s))

\* C14 as stated: a splice with cut_length 0 and an empty paste, at an
\* offset in range, returns the bytes of the record, for every string
\* field.
C14_EmptySpliceAnyRecord == EmptySplice => new_data = tuple

\* C14: a splice with cut_length 0 and an empty paste, at an offset in
\* range, returns the bytes of the record when the array header of the
\* record and the header of the string are the shortest for their lengths;
\* under any headers the bytes of the string are those of the old string.
C14_EmptySplice ==
    EmptySplice =>
        /\ new_data # NULL
        /\ new_data.a[1].s = OldStr
        /\ (ShortestHeader(tuple) /\ ShortestStr(tuple.a[1])) => new_data = tuple

C14_Witness ==
    /\ pc = "executed" /\ EmptySplice
    /\ tuple = Arr(<<Str(Bytes_hello)>>) /\ ArgOffset = 3
    /\ new_data = tuple

RECURSIVE DoAll(_, _, _, _)
\* the loop of update_do_ops over the operations i .. as a function
DoAll(list, i, field, ib) ==
    IF i > Len(list) THEN [rc |-> 0, field |-> field]
    ELSE Bind(do_op(list[i], field, ib), LAMBDA r :
         IF r.rc # 0 THEN [rc |-> -1, field |-> field]
         ELSE DoAll(list, i + 1, r.field, ib))

\* the data of a call on the record r as a function of its arguments, NULL
\* when it fails
UpdateOf(r, list, ib, d) ==
    IF mp_typeof(list) # "MP_ARRAY" THEN NULL
    ELSE Bind(DecodeAll(list.a, 1, ib, d, 0), LAMBDA dec :
         IF dec.rc # 0 THEN NULL
         ELSE Bind(DoAll(dec.ops, 1, NopField(r), ib), LAMBDA t :
              IF t.rc # 0 THEN NULL ELSE update_field_store(t.field).out))

\* the call is one set with an integer target, and it has succeeded
SetDone ==
    /\ Returned /\ Len(expr.a) = 1 /\ Plain(expr.a[1])
    /\ OpCode(expr.a[1]) = CH_SET
    /\ mp_typeof(OpTarget(expr.a[1])) \in {"MP_UINT", "MP_INT"}
    /\ new_data # NULL

\* the place, from one, of the field a target addresses in the result
PlaceOf(t, n, ib) == IF t >= 0 THEN t - ib + 1 ELSE n + t + 1

\* C15: the same set applied in another call to the result of a set gives
\* the bytes of that result, and the field the set addresses holds the
\* bytes of the argument.
C15_SetIdempotent ==
    SetDone =>
        /\ new_data = UpdateOf(tuple, expr, index_base, dict)
        /\ UpdateOf(new_data, expr, index_base, dict) = new_data
        /\ new_data.a[PlaceOf(OpTarget(expr.a[1]).v, Len(new_data.a),
                              index_base)] = OpArg(expr.a[1])

C15_Witness ==
    /\ pc = "executed" /\ SetDone
    /\ tuple = MpArrayW(<<U(1), U(2), U(3)>>, 3)
    /\ expr = Arr(<<OpExpr(CH_SET, U(4), <<MpUint(9, 2)>>)>>)
    /\ index_base = 1
    /\ new_data = Arr(<<U(1), U(2), U(3), MpUint(9, 2)>>)

\* C16 as stated: a second call with the same record, operations, index
\* base and dictionary gives what the first gave, the same data of the
\* same size or the same error, whatever the call before it left behind.
C16_SameOutcome ==
    (calls = 1 /\ Returned)
        => /\ new_data = first.data
           /\ new_size = first.size
           /\ (new_data = NULL => diag = first.diag)

\* the two calls agree on the data, on the size, and on the error but for
\* its field number when the field id is no int32_t
SameOutcomeButFieldOfError ==
    (calls = 1 /\ Returned)
        => /\ new_data = first.data
           /\ new_size = first.size
           /\ new_data = NULL => [diag EXCEPT !.field = 0]
                                     = [first.diag EXCEPT !.field = 0]
           /\ (new_data = NULL /\ diag # first.diag)
                 => (diag.code = "ER_UPDATE_ARG_TYPE" /\ diag.msg = "an integer")

\* the nine opcodes
Opcodes ==
    {CH_SET, CH_INSERT, CH_DELETE, CH_ADD, CH_SUB, CH_AND, CH_OR, CH_XOR,
     CH_SPLICE}

\* the call is of one operation, an array whose first element is a string
NamedOp ==
    /\ Returned /\ Len(expr.a) = 1
    /\ mp_typeof(expr.a[1]) = "MP_ARRAY" /\ Len(expr.a[1].a) >= 1
    /\ mp_typeof(expr.a[1].a[1]) = "MP_STR"

\* the name of the operation is one of the nine opcodes
KnownName ==
    Len(expr.a[1].a[1].s) = 1 /\ expr.a[1].a[1].s[1] \in Opcodes

\* the call has failed with the unknown operation error
UnknownOpRaised == new_data = NULL /\ diag.code = "ER_UNKNOWN_UPDATE_OP"

\* C17 as stated: an operation whose name is not one of the nine opcodes,
\* the empty name and the names of several bytes that start with an opcode
\* included, fails with the unknown operation error.
C17_UnknownName == (NamedOp /\ ~KnownName) => UnknownOpRaised

\* a name whose first byte is no opcode is rejected; so is the empty name
\* unless the byte after it, the first of the field id, is an opcode
UnknownFirstByteRejected ==
    (NamedOp /\ OpcodeByte(expr.a[1]) \notin Opcodes) => UnknownOpRaised

\* the count of elements the opcode c requires
RequiredCount(c) == IF c = CH_SPLICE THEN 5 ELSE 3

\* C18: an operation with one of the nine opcodes fails with the unknown
\* operation error exactly when the length of its array is not the count
\* the opcode requires, 5 for the splice and 3 for the others; an
\* operation of the wrong length gets no error of an argument type.
C18_ArgCount ==
    (NamedOp /\ KnownName) =>
        /\ UnknownOpRaised
              <=> Len(expr.a[1].a) # RequiredCount(expr.a[1].a[1].s[1])
        /\ Len(expr.a[1].a) # RequiredCount(expr.a[1].a[1].s[1])
              => diag.code # "ER_UPDATE_ARG_TYPE"

C18_Witness ==
    /\ pc = "executed" /\ NamedOp /\ KnownName
    /\ expr.a[1] = Arr(<<Str(<<CH_SPLICE>>), U(1), Str(Name_a)>>)
    /\ UnknownOpRaised

\* the one operation of the call is no array, or is empty, or its first
\* element is no string
NoOperation ==
    /\ Returned /\ Len(expr.a) = 1
    /\ \/ mp_typeof(expr.a[1]) # "MP_ARRAY"
       \/ Len(expr.a[1].a) < 1
       \/ mp_typeof(expr.a[1].a[1]) # "MP_STR"

\* C19: an operation that is no array, or an empty array, or whose first
\* element is no string, fails with the illegal parameters error, never
\* with the unknown operation error.
C19_IllegalParams ==
    NoOperation => (new_data = NULL /\ diag.code = "ER_ILLEGAL_PARAMS")

C19_Witness ==
    /\ pc = "executed" /\ NoOperation
    /\ expr.a[1] = Arr(<<U(CH_SET), U(1), U(9)>>)
    /\ diag.code = "ER_ILLEGAL_PARAMS" /\ new_data = NULL

\* the call is of one operation with an opcode, of the required length,
\* on the field 1
TypedOp ==
    /\ NamedOp /\ KnownName
    /\ Len(expr.a[1].a) = RequiredCount(expr.a[1].a[1].s[1])
    /\ expr.a[1].a[2] = U(1)

\* x is an integer in the range of int32_t
FitsI32(x) == IsInt(x) /\ x.v >= INT32_MIN /\ x.v <= INT32_MAX

\* the arguments of the operation have a type the opcode c does not take
WrongArg(c, args) ==
    CASE c \in {CH_ADD, CH_SUB} -> ~IsNumber(args[1]) /\ ~IsDecimal(args[1])
      [] c \in {CH_AND, CH_OR, CH_XOR} -> mp_typeof(args[1]) # "MP_UINT"
      [] c = CH_DELETE -> mp_typeof(args[1]) # "MP_UINT"
      [] c = CH_SPLICE -> \/ ~FitsI32(args[1]) \/ ~FitsI32(args[2])
                          \/ mp_typeof(args[3]) # "MP_STR"
      [] OTHER -> FALSE

ArgTypeRaised == new_data = NULL /\ diag.code = "ER_UPDATE_ARG_TYPE"

\* C20: an argument of a type the opcode does not take is reported by the
\* argument type error: no number for + and -, no unsigned integer for
\* the bit operations and for the count of a delete, no int32_t for the
\* offset and the cut length of a splice, no string for its paste; a set
\* and an insert take a value of any type.
C20_ArgType ==
    TypedOp =>
        \E c \in {expr.a[1].a[1].s[1]} :
        \E args \in {SubSeq(expr.a[1].a, 3, Len(expr.a[1].a))} :
            /\ WrongArg(c, args) => ArgTypeRaised
            /\ c \in {CH_SET, CH_INSERT} =>
                  /\ diag.code # "ER_UPDATE_ARG_TYPE"
                  /\ tuple = DecodeTuple => ~UpdateFailed

C20_Witness ==
    /\ pc = "executed" /\ TypedOp
    /\ expr.a[1] = Arr(<<Str(<<CH_AND>>), U(1), I(-1)>>)
    /\ ArgTypeRaised /\ diag.msg = "a positive integer"

\* the operations have been decoded and the k-th is a delete
DecodedDelete(k) ==
    /\ pc \in {"do_ops", "executed", "done"}
    /\ k <= Len(ops) /\ ops[k].meta = op_delete

\* C21 as stated: a delete is accepted with a positive count only: no
\* delete is decoded into an operation that deletes zero fields.
C21_DeleteCountPositive ==
    \A k \in 1..MaxOps : DecodedDelete(k) => ops[k].arg.del_count > 0

\* a count that is no unsigned integer is rejected
DeleteCountUnsigned ==
    (NamedOp /\ KnownName /\ Len(expr.a[1].a) = 3
        /\ expr.a[1].a[1].s[1] = CH_DELETE /\ expr.a[1].a[2] = U(1)
        /\ mp_typeof(expr.a[1].a[3]) # "MP_UINT") => ArgTypeRaised

\* the last operation of the call
LastOp == expr.a[Len(expr.a)]

\* the call is one delete of 1 .. UINT32_MAX fields, alone or after an
\* insert in front of the record
DeleteCall ==
    /\ Returned
    /\ \/ Len(expr.a) = 1
       \/ Len(expr.a) = 2 /\ expr.a[1] = InsertInFront(index_base)
    /\ Plain(LastOp) /\ OpCode(LastOp) = CH_DELETE
    /\ mp_typeof(OpTarget(LastOp)) \in {"MP_UINT", "MP_INT"}
    /\ mp_typeof(OpArg(LastOp)) = "MP_UINT"
    /\ OpArg(LastOp).v \in 1..UINT32_MAX

\* the fields of the record when the delete is executed
CurrentFields == IF Len(expr.a) = 2 THEN <<U(0)>> \o tuple.a ELSE tuple.a

\* the position the delete starts at
DeletePos == RefPos(OpTarget(LastOp).v, Len(CurrentFields), index_base)

FailedOnField ==
    /\ NamedOp /\ Len(expr.a[1].a[1].s) = 1 /\ Len(expr.a[1].a) >= 2
    /\ mp_typeof(expr.a[1].a[2]) = "MP_UINT"
    /\ expr.a[1].a[2].v >= index_base /\ expr.a[1].a[2].v <= INT32_MAX
    /\ UpdateFailed

\* the error names the operation and the field as the caller wrote them
CarriesOpAndField ==
    /\ diag.opcode = expr.a[1].a[1].s[1]
    /\ diag.field = expr.a[1].a[2].v

\* C23 as stated: every error of an operation, of any kind, the unknown
\* operation and argument count errors included, carries the opcode of the
\* operation and the field index of its target as the caller sees it.
C23_ErrorCarriesOp == FailedOnField => CarriesOpAndField

\* the target is in an encoding of 64 bits, which mp_read_int32 rejects
TargetRejected == expr.a[1].a[2].w = 9

\* the errors of an argument type and of an update of a field do carry
\* both, once the target has been read
ArgAndFieldErrorsCarryOp ==
    (FailedOnField /\ ~TargetRejected
        /\ diag.code \in {"ER_UPDATE_ARG_TYPE", "ER_UPDATE_FIELD"})
        => CarriesOpAndField

\* the errors that carry no opcode, and the unknown operation error no
\* field either
ErrorsWithoutOp ==
    (FailedOnField /\ ~TargetRejected /\ ~CarriesOpAndField)
        => diag.code \in {"ER_UNKNOWN_UPDATE_OP", "ER_NO_SUCH_FIELD_NO",
                          "ER_SPLICE"}

\* the call is of one set or insert
TargetCall ==
    /\ Len(expr.a) = 1 /\ Plain(expr.a[1])
    /\ OpCode(expr.a[1]) \in {CH_SET, CH_INSERT}

IntTarget == mp_typeof(OpTarget(expr.a[1])) \in {"MP_UINT", "MP_INT"}

\* the operation has been decoded and not executed yet
Decoded == pc = "do_ops" /\ op_no = 0

\* the decoding has failed with the error code
DecodeError(code) == Len(ops) = 0 /\ new_data = NULL /\ diag.code = code

\* what the claim gives for the integer target f and the index base b
TargetAsStated(f, b) ==
    /\ (f >= b /\ f <= INT32_MAX)
          => /\ Returned => Len(ops) = 1
             /\ Decoded => ops[1].field_no = f - b
    /\ (f < 0 /\ f >= INT32_MIN)
          => /\ Returned => Len(ops) = 1
             /\ Decoded => ops[1].field_no = f
    /\ (f >= 0 /\ f < b)
          => (Returned => DecodeError("ER_NO_SUCH_FIELD_NO") /\ diag.field = f)
    /\ (f > INT32_MAX \/ f < INT32_MIN)
          => (Returned => DecodeError("ER_UPDATE_ARG_TYPE"))

\* C24 as stated: an integer target f with the index base b is stored as
\* f - b when f >= b and unchanged when f < 0, fails with the no such
\* field error of f when 0 <= f < b and with the argument type error when
\* it is no int32_t; a target that is neither an integer nor a string
\* fails with the illegal parameters error.
C24_TargetDecoding ==
    TargetCall =>
        IF IntTarget THEN TargetAsStated(OpTarget(expr.a[1]).v, index_base)
        ELSE mp_typeof(OpTarget(expr.a[1])) # "MP_STR"
                => (Returned => DecodeError("ER_ILLEGAL_PARAMS"))

\* the same but for INT32_MIN with the index base 1 in a build where the
\* subtraction wraps, and for the integers in an encoding of 64 bits
TargetDecodingInRange ==
    (TargetCall /\ IntTarget
        /\ OpTarget(expr.a[1]).w # 9
        /\ ~(OpTarget(expr.a[1]).v = INT32_MIN /\ index_base = 1
                /\ build # "exact"))
        => TargetAsStated(OpTarget(expr.a[1]).v, index_base)

\* an integer in an encoding of 64 bits is rejected whatever its value
Target64Rejected ==
    (TargetCall /\ IntTarget /\ OpTarget(expr.a[1]).w = 9 /\ Returned)
        => DecodeError("ER_UPDATE_ARG_TYPE")

\* INT32_MIN with the index base 1 is stored as INT32_MAX where the
\* subtraction wraps
TargetMinWraps ==
    (TargetCall /\ IntTarget /\ OpTarget(expr.a[1]) = I(INT32_MIN)
        /\ index_base = 1 /\ build # "exact" /\ Decoded)
        => ops[1].field_no = INT32_MAX

\* the positions of the bits set in the word x
BitsOf(x) == {i \in 0..(WordBits - 1) : (x \div 2^i) % 2 = 1}

\* the word whose set bits are at the positions of S
RECURSIVE WordOf(_)
WordOf(S) ==
    IF S = {} THEN 0
    ELSE LET i == CHOOSE j \in S : TRUE IN 2^i + WordOf(S \ {i})

\* v and a, v or a, v xor a on the word
RefBit(c, v, a) ==
    CASE c = CH_AND -> WordOf(BitsOf(v) \cap BitsOf(a))
      [] c = CH_OR -> WordOf(BitsOf(v) \cup BitsOf(a))
      [] c = CH_XOR -> WordOf((BitsOf(v) \cup BitsOf(a))
                                 \ (BitsOf(v) \cap BitsOf(a)))

\* the call is one bit operation with an unsigned operand on the second
\* field of a record of two
BitCall ==
    /\ Returned /\ Len(expr.a) = 1 /\ Plain(expr.a[1])
    /\ OpCode(expr.a[1]) \in {CH_AND, CH_OR, CH_XOR}
    /\ OpTarget(expr.a[1]) = U(index_base + 1)
    /\ mp_typeof(OpArg(expr.a[1])) = "MP_UINT"
    /\ Len(tuple.a) = 2

\* C25: a bit operation with the operand a on a field that holds the
\* unsigned integer v stores the unsigned integer v and a, v or a, v xor a
\* of the 64-bit word, and new_field_len is the encoded size of it; on a
\* field that is no unsigned integer (a negative integer, a float, a
\* string) it fails with the argument type error and there is no result.
C25_BitOps ==
    BitCall =>
        IF mp_typeof(tuple.a[2]) = "MP_UINT"
        THEN /\ new_data # NULL
             /\ new_data.a = <<tuple.a[1],
                               mp_encode_uint(RefBit(OpCode(expr.a[1]),
                                                     tuple.a[2].v,
                                                     OpArg(expr.a[1]).v))>>
             /\ root.rope[2].op.new_field_len = new_data.a[2].w
        ELSE ArgTypeRaised /\ diag.msg = "a positive integer"

C25_Witness ==
    /\ pc = "executed" /\ BitCall
    /\ tuple = Arr(<<U(7), U(12)>>) /\ index_base = 1
    /\ expr = Arr(<<OpExpr(CH_XOR, U(2), <<U(10)>>)>>)
    /\ new_data = Arr(<<U(7), U(6)>>)

\* the store of the node writes the count of bytes it returns, which is
\* the size update_field_sizeof reports
NodeSizeExact(field) ==
    \E r \in {update_field_store(field)} :
        /\ r.n = update_field_sizeof(field)
        /\ mp_sizeof_value(r.out) = r.n

\* the tree of a call that has stored its result is size-exact: the root,
\* every node of its rope, and the result in the buffer of new_size bytes
StoredSizeExact ==
    (Returned /\ new_data # NULL)
        => /\ mp_sizeof_value(new_data) = new_size
           /\ NodeSizeExact(root)
           /\ \A i \in 1..Len(root.rope) : NodeSizeExact(root.rope[i])

\* the tree is complete and about to be stored
ToBeStored == pc = "do_ops" /\ op_no = Len(ops)

\* C26 as stated: for every node of an update tree, of any type and
\* opcode, the store writes exactly the bytes that the size pass has
\* counted, so that no write passes the end of the buffer.
C26_SizeExact ==
    /\ StoredSizeExact
    /\ ToBeStored => ~SpliceFault(root)

\* the trees whose store would pass the buffer are those of a splice
\* whose offset or cut length is INT32_MIN, in a build where the negation
\* wraps
OverrunOnlyAtMin ==
    (ToBeStored /\ SpliceFault(root))
        => /\ build # "exact"
           /\ SpliceCall
           /\ INT32_MIN \in {OpArg(expr.a[1]).v, expr.a[1].a[4].v}

\* the splice has been executed: its normalised arguments are in the
\* operation
SpliceExecuted == SpliceCall /\ pc = "do_ops" /\ op_no = 1

\* the normalised arguments lie inside the old string
SpliceInside(arg, L) ==
    /\ 0 <= arg.offset /\ arg.offset <= L
    /\ 0 <= arg.cut_length /\ arg.cut_length <= L - arg.offset
    /\ arg.tail_offset = arg.offset + arg.cut_length /\ arg.tail_offset <= L
    /\ arg.tail_length = L - arg.tail_offset /\ arg.tail_length >= 0

\* the splice ends by the splice error or with arguments inside the old
\* string: no assertion fails and no copy leaves the string
SpliceSafe ==
    /\ SpliceCall => pc \notin {"aborted", "crashed"}
    /\ SpliceExecuted => SpliceInside(ops[1].arg, Len(OldStr))

\* C28 as stated: for every offset and cut length of int32_t, INT32_MIN
\* included, every index base and every string, update_op_do_splice
\* returns the splice error or leaves 0 <= offset <= L,
\* 0 <= cut_length <= L - offset, tail_offset = offset + cut_length <= L
\* and tail_length = L - tail_offset >= 0: its assertions hold and the
\* store copies bytes of the old string only.
C28_SpliceSafe == SpliceSafe

\* the same where no negation overflows: in a build that decides the
\* comparisons in the integers, and for arguments other than INT32_MIN
SpliceSafeAwayFromMin ==
    (SpliceCall /\ (build = "exact" \/ INT32_MIN \notin {ArgOffset, ArgCut}))
        => SpliceSafe


(***************************************************************************)
(* Big references (SpecRef)                                                *)
(***************************************************************************)
Counter(t) == bigref_list.refs[tuples[t].refs + 1]

OwnedSlots == {tuples[t].refs : t \in {u \in TupleIds : tuples[u].is_bigref}}

\* the slots met from index i on, following the indexes the free slots hold
RECURSIVE FreeChain(_, _, _)
FreeChain(list, i, fuel) ==
    IF i >= list.capacity \/ fuel = 0 THEN <<>>
    ELSE <<i>> \o FreeChain(list, list.refs[i + 1], fuel - 1)

FreeList(list) == FreeChain(list, list.vacant_index, list.capacity + 1)

SeqSet(q) == {q[k] : k \in 1..Len(q)}

BigrefShape ==
    /\ Len(bigref_list.refs) = bigref_list.capacity
    /\ bigref_list.capacity <= BIGREF_MAX_CAPACITY
    /\ bigref_list.vacant_index <= bigref_list.capacity
    /\ \A t \in TupleIds :
          IF tuples[t].is_bigref
          THEN /\ tuples[t].refs < bigref_list.capacity
               /\ Counter(t) > TUPLE_REF_MAX
               /\ Counter(t) <= BIGREF_MAX
               /\ \A u \in TupleIds \ {t} :
                     tuples[u].is_bigref => tuples[u].refs # tuples[t].refs
          ELSE tuples[t].refs = TUPLE_REF_MAX
    /\ \E free \in {FreeList(bigref_list)} :
          /\ SeqSet(free) = (0..(bigref_list.capacity - 1)) \ OwnedSlots
          /\ Len(free) = Cardinality(SeqSet(free))
          /\ \A k \in 1..Len(free) :
                bigref_list.refs[free[k] + 1] <= bigref_list.capacity

\* what one call does to the tuple it is called on, and to the others
BigrefStep ==
    \A t \in TupleIds :
        /\ (~tuples[t].is_bigref /\ tuples'[t].is_bigref =>
               /\ tuples'[t].refs \notin OwnedSlots
               /\ bigref_list'.refs[tuples'[t].refs + 1] = TUPLE_REF_MAX + 1)
        /\ (tuples[t].is_bigref /\ ~tuples'[t].is_bigref =>
               /\ Counter(t) = TUPLE_REF_MAX + 1
               /\ tuples'[t].refs = TUPLE_REF_MAX
               /\ bigref_list'.vacant_index = tuples[t].refs
               /\ bigref_list'.refs[tuples[t].refs + 1] = bigref_list.vacant_index)
        /\ (tuples[t].is_bigref /\ tuples'[t].is_bigref =>
               /\ tuples'[t].refs = tuples[t].refs
               /\ bigref_list'.refs[tuples[t].refs + 1] - Counter(t) \in {-1, 0, 1})

PanicOnlyWhenFull ==
    ref_pc = "panicked" =>
        \/ bigref_list.vacant_index = bigref_list.capacity
        \/ \E t \in TupleIds : tuples[t].is_bigref /\ Counter(t) = BIGREF_MAX


(***************************************************************************)
(* The fiber region around box_tuple_update and box_tuple_upsert           *)
(***************************************************************************)
BoxReturned ==
    \/ pc = "done" /\ entry = "box_tuple_update"
    \/ pc = "upsert_done"

\* C30: when box_tuple_update or box_tuple_upsert has returned, by the
\* update error, by the failure of tuple_new or with the new tuple, the used
\* size of the fiber region is the one the caller had at the call; and after
\* an update error there is no new tuple: NULL is returned.
C30_RegionRestored ==
    BoxReturned =>
        /\ region_used = gc_used
        /\ (new_data = NULL => ret = NULL /\ diag # NoErr)
        /\ (ret # NULL => ret = new_data)

\* box_tuple_update has failed on the second of two operations, decoded on a
\* region of which the caller holds a part
C30_Witness ==
    /\ pc = "done" /\ entry = "box_tuple_update"
    /\ gc_used = 2
    /\ Len(expr.a) = 2
    /\ Len(ops) = 2 /\ op_no = 1
    /\ UpdateFailed
    /\ ret = NULL

\* box_tuple_upsert has returned a tuple to a caller that holds a part of
\* the region
UpsertReturnsTuple ==
    pc = "upsert_done" /\ gc_used = 2 /\ ret # NULL /\ ret = new_data

\* box_tuple_update has returned NULL because tuple_new failed
UpdateReturnsOnAllocationFailure ==
    /\ pc = "done" /\ entry = "box_tuple_update" /\ gc_used = 2
    /\ new_data # NULL /\ ret = NULL /\ diag.code = "ER_MEMORY_ISSUE"


(***************************************************************************)
(* Bars and arrays (SpecBar)                                               *)
(***************************************************************************)
RECURSIVE ArrayDescend(_, _, _, _)
\* the operation applied with every container on its path made an array
\* update: op.field_no is the token of this level, path the tokens below
ArrayDescend(op, path, field, ib) ==
    IF field.type = "UPDATE_SCALAR" \/ field.data.t # "MP_ARRAY"
    THEN DoRet(-1, op, field, update_err_no_such_field(op, ib))
    ELSE Bind(IF field.type = "UPDATE_NOP" THEN update_array_create(field)
              ELSE field, LAMBDA arr :
         IF path = <<>> THEN do_op_array(op, arr, ib)
         ELSE IF op.field_no < 0 \/ op.field_no >= Len(arr.rope)
         THEN DoRet(-1, op, field, update_err_no_such_field(op, ib))
         ELSE Bind(ArrayDescend([op EXCEPT !.field_no = path[1]], Tail(path),
                                arr.rope[op.field_no + 1], ib), LAMBDA r :
              IF r.rc # 0 THEN DoRet(r.rc, r.op, field, r.diag)
              ELSE DoRet(0, r.op, [arr EXCEPT !.rope[op.field_no + 1] = r.field],
                         NoErr)))

RECURSIVE ArrayRun(_, _, _, _)
\* the operations i .. applied in turn, all through arrays
ArrayRun(list, i, field, ib) ==
    IF i > Len(list) THEN [rc |-> 0, field |-> field]
    ELSE Bind(ArrayDescend(list[i].op, list[i].lexer, field, ib), LAMBDA r :
         IF r.rc # 0 THEN [rc |-> -1, field |-> field]
         ELSE ArrayRun(list, i + 1, r.field, ib))

\* the record re-encoded from the tree of arrays, or NULL
ArrayOutput ==
    Bind(DecodeAllPath(expr.a, 1, index_base, dict, 0), LAMBDA d :
        IF d.rc # 0 THEN NULL
        ELSE Bind(ArrayRun(d.ops, 1, NopField(tuple), index_base), LAMBDA r :
             IF r.rc # 0 THEN NULL ELSE update_field_store(r.field).out))

\* the call has ended and the tree holds a bar
BarStored ==
    /\ pc = "executed"
    /\ new_data # NULL
    /\ \E i \in 1..Len(root.rope) : root.rope[i].type = "UPDATE_BAR"

RECURSIVE ShortestHeaders(_, _)
\* each array on the path, the parent of the point included, has the
\* shortest header of its count
ShortestHeaders(data, path) ==
    /\ data.t = "MP_ARRAY"
    /\ data.w = mp_sizeof_array(Len(data.a))
    /\ (Len(path) > 1 => ShortestHeaders(data.a[path[1] + 1], Tail(path)))

\* the arrays from the field of the record down to the parent of the point
\* of each bar have the shortest header
BarsHaveShortestHeaders ==
    \A i \in 1..Len(root.rope) :
        root.rope[i].type = "UPDATE_BAR" =>
            ShortestHeaders(root.rope[i].data, root.rope[i].path)

BarDiffersOnlyByHeaders ==
    BarStored /\ new_data # ArrayOutput => ~BarsHaveShortestHeaders

\* with an array of a longer header on the path of a scalar operation the
\* bytes differ: the bar copies the header
BarKeepsLongHeader ==
    /\ BarStored
    /\ tuple = Arr(<<U(1), MpArrayW(<<U(5), Arr(<<U(8), U(12)>>)>>, 3), U(3)>>)
    /\ expr = Arr(<<OpExpr(CH_SET, Str(PathStr(<<2, 1>>)), <<U(1)>>)>>)
    /\ index_base = 1
    => /\ new_data = Arr(<<U(1), MpArrayW(<<U(1), Arr(<<U(8), U(12)>>)>>, 3), U(3)>>)
       /\ ArrayOutput = Arr(<<U(1), Arr(<<U(1), Arr(<<U(8), U(12)>>)>>), U(3)>>)

====
